---- MODULE Spec2Model ----
(***************************************************************************)
(* Model of the training-loop orchestration of TFEngine.py: Runner (one    *)
(* run over the batches of a dataset, metric accumulation, the Horovod     *)
(* handshake) and Engine (train_epoch, save_model, cleanup_old_models).    *)
(***************************************************************************)
EXTENDS Integers, Sequences, FiniteSets, TLC

VARIABLES
  config,         \* the entries of engine.config the modelled code reads
  pc,             \* control location of every process (peer)
  runner,         \* the Runner object of every process, with the locals of run()
  data_provider,  \* the data provider of every process
  hvd,            \* the collective (allreduce) every process is blocked in
  engine,         \* the Engine fields of every process
  files,          \* the checkpoints on disk: name -> bytes of the checkpoint's files
  epochData,      \* learning_rate_control.epochData: epoch -> error dict
  trace           \* observation log of every process (history, no program state)

vars == <<config, pc, runner, data_provider, hvd, engine, files, epochData, trace>>

----------------------------------------------------------------------------
(* Bounds of the model. *)

MaxPeers == 2          \* hvd.size() of a distributed run
MaxBatches == 3        \* batches in the epoch's batch stream
MaxStoredEpoch == 4    \* stored models are those of epochs Scale * (1 .. MaxStoredEpoch)
MaxKeep == 2           \* largest keep_last_n and keep_best_n of the cleanup options
MaxFileBytes == 2       \* largest size of the files of a checkpoint on disk
MaxEpoch == 3          \* last epoch a behaviour of Engine.train starts
MaxInits == 2          \* constructions of a network after the first one
MaxEvents == 2         \* faults and cancel requests of the environment in one behaviour

----------------------------------------------------------------------------
(* Floats.  A float is <<n, d>>: the non-negative rational n/d when d > 0, *)
(* NaN when <<0, 0>>, +Inf when <<1, 0>>.  Rounding is not modelled.       *)

NaN == <<0, 0>>
Inf == <<1, 0>>
Zero == <<0, 1>>
One == <<1, 1>>

RECURSIVE GCD(_, _)
GCD(a, b) == IF b = 0 THEN a ELSE GCD(b, a % b)

Float(n, d) ==
  IF d = 0 THEN (IF n = 0 THEN NaN ELSE Inf)
  ELSE LET g == GCD(n, d) IN <<n \div g, d \div g>>

isnan(x) == x = NaN
isinf(x) == x = Inf
isfinite(x) == x[2] > 0

FloatAdd(a, b) ==
  IF isnan(a) \/ isnan(b) THEN NaN
  ELSE IF isinf(a) \/ isinf(b) THEN Inf
  ELSE Float(a[1] * b[2] + b[1] * a[2], a[2] * b[2])

FloatDiv(a, b) ==
  IF isnan(a) \/ isnan(b) THEN NaN
  ELSE IF isinf(a) THEN (IF isinf(b) THEN NaN ELSE Inf)
  ELSE IF isinf(b) THEN Zero
  ELSE IF b[1] = 0 THEN (IF a[1] = 0 THEN NaN ELSE Inf)
  ELSE Float(a[1] * b[2], a[2] * b[1])

FloatLess(a, b) ==
  /\ ~isnan(a) /\ ~isnan(b)
  /\ IF isinf(a) THEN FALSE
     ELSE IF isinf(b) THEN TRUE
     ELSE a[1] * b[2] < b[1] * a[2]

\* a <= b of Python floats: false when either is NaN.
FloatLeq(a, b) ==
  /\ ~isnan(a) /\ ~isnan(b)
  /\ (a = b \/ FloatLess(a, b))

\* Python's None where a float may be missing.
None == <<>>

\* x or 0
OrZero(x) == IF x = None THEN Zero ELSE x

----------------------------------------------------------------------------
(* Fetch keys.  A key "cost:output" is the sequence of its colon-separated *)
(* parts, <<"cost", "output">>; "loss" is <<"loss">>.                      *)

LossKey == <<"loss">>

startswith(key, prefix) == Len(key) >= 2 /\ key[1] = prefix

\* key[key.find(":") + 1:]
AfterFirstColon(key) == Tail(key)

\* NumbersDict: a dict key -> float; += adds per key, a key missing on one
\* side keeps the other side's value.
EmptyDict == [k \in {} |-> Zero]

NumbersDictAdd(a, b) ==
  [k \in (DOMAIN a) \cup (DOMAIN b) |->
     IF k \in DOMAIN a /\ k \in DOMAIN b THEN FloatAdd(a[k], b[k])
     ELSE IF k \in DOMAIN a THEN a[k] ELSE b[k]]

----------------------------------------------------------------------------
(* Configuration, processes, the batch slice of every process. *)

\* hvd.size(), hvd.rank(): process p of a distributed run has rank p.
Procs == 0 .. (config.hvd_size - 1)

\* A variant that saves in every process.
do_save_Always(p) == TRUE

\* Engine._do_save: on disk only rank 0 saves.
do_save(p) == ~(config.use_horovod /\ p # 0)

\* Engine._get_new_data_provider: batch_slice = slice(rank, None, size) of the
\* epoch's batch stream 0 .. num_batches - 1; without Horovod the whole stream.
BatchSlice(p) ==
  IF config.use_horovod
    THEN {i \in 0 .. (config.num_batches - 1) : i % config.hvd_size = p}
    ELSE 0 .. (config.num_batches - 1)

\* A variant that takes the batches of the slice from its end.
BatchAt_FromEnd(p, pos) ==
  IF config.use_horovod
    THEN p + ((config.num_batches - 1 - p) \div config.hvd_size - pos) * config.hvd_size
    ELSE config.num_batches - 1 - pos

\* The pos-th batch (pos >= 0) of the slice of process p.
BatchAt(p, pos) == IF config.use_horovod THEN p + pos * config.hvd_size ELSE pos

\* DataProvider.have_more_data / have_reached_end: the producer thread ran to
\* the end of the slice unless it died before.
have_more_data(p) ==
  /\ ~data_provider[p].thread_died
  /\ data_provider[p].pos < Cardinality(BatchSlice(p))

have_reached_end(p) ==
  /\ ~data_provider[p].thread_died
  /\ data_provider[p].pos = Cardinality(BatchSlice(p))

NewDataProvider == [pos |-> 0, thread_died |-> FALSE, threads_running |-> FALSE]

----------------------------------------------------------------------------
(* Runner: metric accumulation. *)

\* Runner.__init__, with the locals of run() (step, hvd_stop, hvd_error, writer).
NewRunner(train) ==
  [should_train |-> train,
   finalized |-> FALSE,
   cancel_flag |-> FALSE,
   run_exception |-> "None",
   num_steps |-> -1,               \* None
   device_crash_batch |-> -1,      \* None
   results_accumulated |-> EmptyDict,
   inv_norm_accumulated |-> EmptyDict,
   results |-> EmptyDict,
   score |-> EmptyDict,
   error |-> EmptyDict,
   horovod_stopped_runner |-> FALSE,
   step |-> -1,                    \* None
   hvd_stop |-> FALSE,
   hvd_error |-> FALSE,
   writer |-> "none"]

\* Runner._get_fetches_dict for a network with the one loss "output":
\* the keys of the fetches that carry metrics.
FetchKeys ==
  {LossKey, <<"cost", "output">>, <<"error", "output">>, <<"loss_norm_factor", "output">>}

MakeFetch(loss, cost, err, norm) ==
  [k \in FetchKeys |->
     IF k = LossKey THEN loss
     ELSE IF k[1] = "cost" THEN cost
     ELSE IF k[1] = "error" THEN err
     ELSE norm]

\* A variant without the case of the falsy value.
normalize_loss_NoZeroCase(value, key, inv_loss_norm_factors) ==
  IF key = LossKey THEN [ok |-> TRUE, value |-> value]
  ELSE IF DOMAIN inv_loss_norm_factors = {} THEN [ok |-> FALSE, value |-> value]
  ELSE IF Len(key) < 2 THEN [ok |-> FALSE, value |-> value]
  ELSE IF Tail(key) \notin DOMAIN inv_loss_norm_factors
    THEN [ok |-> FALSE, value |-> value]
  ELSE [ok |-> TRUE,
        value |-> FloatDiv(value, inv_loss_norm_factors[Tail(key)])]

\* Runner._normalize_loss: [ok, value]; ok = FALSE is a failed assertion.
normalize_loss(value, key, inv_loss_norm_factors) ==
  IF value = Zero THEN [ok |-> TRUE, value |-> value]
  ELSE IF key = LossKey THEN [ok |-> TRUE, value |-> value]
  ELSE IF DOMAIN inv_loss_norm_factors = {} THEN [ok |-> FALSE, value |-> value]
  ELSE IF Len(key) < 2 THEN [ok |-> FALSE, value |-> value]
  ELSE IF AfterFirstColon(key) \notin DOMAIN inv_loss_norm_factors
    THEN [ok |-> FALSE, value |-> value]
  ELSE [ok |-> TRUE,
        value |-> FloatDiv(value, inv_loss_norm_factors[AfterFirstColon(key)])]

\* A variant that accumulates the values normalized step by step.
collect_eval_info_NormalizedPerStep(r, fetches_results) ==
  LET keys == {k \in DOMAIN fetches_results :
                 startswith(k, "cost") \/ startswith(k, "error") \/ k = LossKey}
      norm_keys == {k \in DOMAIN fetches_results : startswith(k, "loss_norm_factor")}
      inv_loss_norm_factors ==
        [n \in {AfterFirstColon(k) : k \in norm_keys} |->
           FloatDiv(One, fetches_results[<<"loss_norm_factor">> \o n])]
  IN [r EXCEPT
        !.results_accumulated =
            NumbersDictAdd(@, [k \in keys |->
              normalize_loss(fetches_results[k], k, inv_loss_norm_factors).value]),
        !.inv_norm_accumulated = NumbersDictAdd(@, inv_loss_norm_factors)]

\* Runner._collect_eval_info: the accumulation of one step's fetches.
collect_eval_info(r, fetches_results) ==
  LET keys == {k \in DOMAIN fetches_results :
                 startswith(k, "cost") \/ startswith(k, "error") \/ k = LossKey}
      norm_keys == {k \in DOMAIN fetches_results : startswith(k, "loss_norm_factor")}
      inv_loss_norm_factors ==
        [n \in {AfterFirstColon(k) : k \in norm_keys} |->
           FloatDiv(One, fetches_results[<<"loss_norm_factor">> \o n])]
  IN [r EXCEPT
        !.results_accumulated =
            NumbersDictAdd(@, [k \in keys |-> fetches_results[k]]),
        !.inv_norm_accumulated = NumbersDictAdd(@, inv_loss_norm_factors)]

\* Whether the per-step normalization inside _collect_eval_info raises.
collect_eval_info_ok(fetches_results) ==
  LET norm_keys == {k \in DOMAIN fetches_results : startswith(k, "loss_norm_factor")}
      inv == [n \in {AfterFirstColon(k) : k \in norm_keys} |-> One]
  IN \A k \in DOMAIN fetches_results :
       (startswith(k, "cost") \/ startswith(k, "error") \/ k = LossKey)
         => normalize_loss(fetches_results[k], k, inv).ok

\* Whether Runner._finalize completes (no normalization assertion fails).
finalize_ok(r) ==
  \A k \in DOMAIN r.results_accumulated :
    normalize_loss(r.results_accumulated[k], k, r.inv_norm_accumulated).ok

\* Runner._finalize.
finalize(r, num_steps) ==
  LET results ==
        [k \in DOMAIN r.results_accumulated |->
           normalize_loss(r.results_accumulated[k], k, r.inv_norm_accumulated).value]
  IN [r EXCEPT
        !.results = results,
        !.score = [k \in {x \in DOMAIN results : startswith(x, "cost")} |-> results[k]],
        !.error = [k \in {x \in DOMAIN results : startswith(x, "error")} |-> results[k]],
        !.num_steps = num_steps,
        !.finalized = TRUE]

\* A variant without the clause for KeyboardInterrupt.
except_clause_OneClause(r, exc) ==
  [r EXCEPT !.device_crash_batch = r.step, !.run_exception = exc]

\* A variant that records no crash batch.
except_clause_NoCrashBatch(r, exc) == [r EXCEPT !.run_exception = exc]

\* The except clauses of Runner.run.
except_clause(r, exc) ==
  IF exc = "KeyboardInterrupt"
    THEN [r EXCEPT !.run_exception = exc]
    ELSE [r EXCEPT !.device_crash_batch = r.step, !.run_exception = exc]

----------------------------------------------------------------------------
(* Collectives.  A process that runs an allreduce blocks until every        *)
(* process of the run has entered the same collective.                      *)

NoReq == [op |-> "none"]
SignalReq(have_more, err) ==
  [op |-> "signal", have_more_data |-> IF have_more THEN 1 ELSE 0,
   error |-> IF err THEN 1 ELSE 0]
FetchReq == [op |-> "fetch"]
SyncReq == [op |-> "sync_params"]

RECURSIVE SumOver(_, _)
SumOver(f, S) ==
  IF S = {} THEN 0
  ELSE LET x == CHOOSE y \in S : TRUE IN f[x] + SumOver(f, S \ {x})

\* A variant that never runs a round.
signal_returns_at_once_Always(p) == TRUE

\* A variant that forgets the stopped flag.
signal_returns_at_once_IgnoringStopped(p) == ~config.use_horovod

\* Runner._horovod_signal_broadcast, before the allreduce: TRUE when the call
\* returns at once, without a round.
signal_returns_at_once(p) ==
  ~config.use_horovod \/ runner[p].horovod_stopped_runner

\* ... and what it then returns, <<stop, error_occured>>.
signal_result_at_once(p) ==
  IF ~config.use_horovod THEN <<FALSE, FALSE>> ELSE <<TRUE, FALSE>>

\* A variant that reports an error whenever it stops.
signal_result_ErrorWhenStop(sum_have_data, sum_have_error) ==
  <<sum_have_data < config.hvd_size \/ sum_have_error > 0,
    sum_have_data < config.hvd_size \/ sum_have_error > 0>>

\* A variant that stops only when no peer has data.
signal_result_StopWhenNoneHasData(sum_have_data, sum_have_error) ==
  <<sum_have_data = 0 \/ sum_have_error > 0, sum_have_error > 0>>

\* Runner._horovod_signal_broadcast, after the allreduce: <<stop, error_occured>>.
signal_result(sum_have_data, sum_have_error) ==
  <<sum_have_data < config.hvd_size \/ sum_have_error > 0, sum_have_error > 0>>

\* A variant that is due at the first step of every interval.
sync_params_due_AtIntervalStart(r, local_step, is_final) ==
  /\ config.use_horovod
  /\ config.horovod_reduce_type = "param"
  /\ r.should_train
  /\ (is_final \/ local_step % config.horovod_param_sync_step = 0)

\* Runner._horovod_sync_params: whether a parameter allreduce is due.
sync_params_due(r, local_step, is_final) ==
  /\ config.use_horovod
  /\ config.horovod_reduce_type = "param"
  /\ r.should_train
  /\ (is_final
      \/ local_step % config.horovod_param_sync_step = config.horovod_param_sync_step - 1)

----------------------------------------------------------------------------
(* Observation log (history only). *)

NewLog ==
  [fetched |-> <<>>,         \* the fetches_results of every step done
   batches |-> <<>>,         \* the batch index of every feed taken
   callbacks |-> 0,          \* calls of _maybe_handle_extra_fetches
   cleanup |-> <<>>,         \* cleanup actions attempted in the finally clause
   signal_calls |-> 0,       \* calls of _horovod_signal_broadcast
   signal_rounds |-> 0,      \* allreduce rounds these calls issued
   last_signal |-> <<FALSE, FALSE>>,  \* what the last call returned
   syncs |-> <<>>,           \* local_step of every parameter allreduce done
   op_error |-> FALSE]       \* the session call of a step raised OpError

\* The environment may still raise a fault or set a flag.
EventLeft == trace.events < MaxEvents

LogSignal(l, issued_round, result) ==
  [l EXCEPT !.signal_calls = @ + 1,
            !.signal_rounds = @ + (IF issued_round THEN 1 ELSE 0),
            !.last_signal = result]

----------------------------------------------------------------------------
(* Runner.run. *)

InRun(p) ==
  pc[p] \in {"loop", "signal_have_more_data", "step", "sess_run", "sync_params",
             "after_loop", "signal_finish", "final_sync"}

\* Entry of run(): threads and writer are started, step = 0, fetches are built.
RunStart(p) ==
  /\ pc[p] = "run"
  /\ pc' = [pc EXCEPT ![p] = "loop"]
  /\ runner' = [runner EXCEPT ![p].step = 0, ![p].writer = "open"]
  /\ data_provider' = [data_provider EXCEPT ![p].threads_running = TRUE]
  /\ UNCHANGED <<config, hvd, engine, files, epochData, trace>>

\* The caller sets cancel_flag while the run is going on.
SetCancelFlag(p) ==
  /\ EventLeft
  /\ InRun(p)
  /\ ~runner[p].cancel_flag
  /\ runner' = [runner EXCEPT ![p].cancel_flag = TRUE]
  /\ UNCHANGED <<config, pc, data_provider, hvd, engine, files, epochData>>
  /\ trace' = [trace EXCEPT !.events = @ + 1]

\* The batch-producer thread stops before it reached the end of the slice.
ProviderThreadDies(p) ==
  /\ EventLeft
  /\ InRun(p)
  /\ pc[p] \in {"loop", "sess_run"}
  /\ have_more_data(p)
  /\ data_provider' = [data_provider EXCEPT ![p].thread_died = TRUE]
  /\ UNCHANGED <<config, pc, runner, hvd, engine, files, epochData>>
  /\ trace' = [trace EXCEPT !.events = @ + 1]

\* while self.data_provider.have_more_data(): _horovod_signal_have_more_data()
LoopHead(p) ==
  /\ pc[p] = "loop"
  /\ IF ~have_more_data(p)
       THEN /\ pc' = [pc EXCEPT ![p] = "after_loop"]
            /\ UNCHANGED <<runner, hvd, trace>>
     ELSE IF signal_returns_at_once(p)
       THEN LET res == signal_result_at_once(p) IN
            /\ runner' = [runner EXCEPT ![p].hvd_stop = res[1], ![p].hvd_error = res[2]]
            /\ pc' = [pc EXCEPT ![p] = IF res[1] THEN "after_loop" ELSE "step"]
            /\ trace' = [trace EXCEPT !.log[p] = LogSignal(@, FALSE, res)]
            /\ UNCHANGED hvd
     ELSE /\ hvd' = [hvd EXCEPT ![p] = SignalReq(TRUE, FALSE)]
          /\ pc' = [pc EXCEPT ![p] = "signal_have_more_data"]
          /\ UNCHANGED <<runner, trace>>
  /\ UNCHANGED <<config, data_provider, engine, files, epochData>>

\* The code after a signal broadcast returned res = <<stop, error>> from a
\* round, by the call site the process waits at: [pc, runner, hvd].
AfterSignalRound(p, res) ==
  LET r == [runner[p] EXCEPT !.horovod_stopped_runner = @ \/ res[1]] IN
  IF pc[p] = "signal_have_more_data" THEN
    LET r2 == [r EXCEPT !.hvd_stop = res[1], !.hvd_error = res[2]] IN
    IF res[2] THEN [pc |-> "finally", runner |-> except_clause(r2, "Exception"), hvd |-> NoReq]
    ELSE IF res[1] THEN [pc |-> "after_loop", runner |-> r2, hvd |-> NoReq]
    ELSE [pc |-> "step", runner |-> r2, hvd |-> NoReq]
  ELSE IF pc[p] = "signal_finish" THEN
    IF sync_params_due(r, r.step, TRUE)
      THEN [pc |-> "final_sync", runner |-> r, hvd |-> SyncReq]
      ELSE [pc |-> "finally", runner |-> r, hvd |-> NoReq]
  ELSE \* "signal_error", inside try_and_ignore_exception
    [pc |-> "cleanup", runner |-> r, hvd |-> NoReq]

\* The code after the session call of a signal broadcast raised.
AfterSignalRaise(p) ==
  IF pc[p] = "signal_error"
    THEN [pc |-> "cleanup", runner |-> runner[p], hvd |-> NoReq]
    ELSE [pc |-> "finally", runner |-> except_clause(runner[p], "OpError"), hvd |-> NoReq]

\* One allreduce round of _horovod_signal_broadcast: every process is in it.
SignalRound ==
  /\ \A p \in Procs : hvd[p].op = "signal"
  /\ LET sum_have_data == SumOver([p \in Procs |-> hvd[p].have_more_data], Procs)
         sum_have_error == SumOver([p \in Procs |-> hvd[p].error], Procs)
         res == signal_result(sum_have_data, sum_have_error)
     IN /\ pc' = [p \in Procs |-> AfterSignalRound(p, res).pc]
        /\ runner' = [p \in Procs |-> AfterSignalRound(p, res).runner]
        /\ hvd' = [p \in Procs |-> AfterSignalRound(p, res).hvd]
        /\ trace' = [trace EXCEPT
             !.log = [p \in Procs |-> LogSignal(trace.log[p], TRUE, res)],
             !.round = [have_more_data |-> [p \in Procs |-> hvd[p].have_more_data],
                        error |-> [p \in Procs |-> hvd[p].error],
                        result |-> res]]
  /\ UNCHANGED <<config, data_provider, engine, files, epochData>>

\* The round fails in the communication layer: the session call raises in
\* every process that is in it.
SignalRoundFails ==
  /\ EventLeft
  /\ \A p \in Procs : hvd[p].op = "signal"
  /\ pc' = [p \in Procs |-> AfterSignalRaise(p).pc]
  /\ runner' = [p \in Procs |-> AfterSignalRaise(p).runner]
  /\ hvd' = [p \in Procs |-> AfterSignalRaise(p).hvd]
  /\ trace' = [trace EXCEPT
       !.events = @ + 1,
       !.log = [p \in Procs |->
                  [trace.log[p] EXCEPT !.signal_calls = @ + 1, !.signal_rounds = @ + 1]]]
  /\ UNCHANGED <<config, data_provider, engine, files, epochData>>

\* feed_dict, meta_step_info = self.data_provider.get_feed_dict(); the session
\* call of the step starts (with Horovod its fetches hold allreduces).
StepBegin(p) ==
  /\ pc[p] = "step"
  /\ data_provider' = [data_provider EXCEPT ![p].pos = @ + 1]
  /\ trace' = [trace EXCEPT
       !.log[p].batches = Append(@, BatchAt(p, data_provider[p].pos))]
  /\ hvd' = [hvd EXCEPT ![p] = IF config.use_horovod THEN FetchReq ELSE NoReq]
  /\ pc' = [pc EXCEPT ![p] = "sess_run"]
  /\ UNCHANGED <<config, runner, engine, files, epochData>>

\* A variant that does not look at cancel_flag.
EndOfStep_NoCancel(r) ==
  [pc |-> "loop", runner |-> [r EXCEPT !.step = @ + 1], hvd |-> NoReq]

\* step += 1; if self.cancel_flag: raise CancelTrainingException
EndOfStep(r) ==
  LET r2 == [r EXCEPT !.step = @ + 1] IN
  IF r2.cancel_flag
    THEN [pc |-> "finally", runner |-> except_clause(r2, "CancelTrainingException"),
          hvd |-> NoReq]
    ELSE [pc |-> "loop", runner |-> r2, hvd |-> NoReq]

\* The code of the loop body after sess.run returned fetches_results.
AfterSessRun(p, fetches_results) ==
  IF ~collect_eval_info_ok(fetches_results)
    THEN [pc |-> "finally", runner |-> except_clause(runner[p], "AssertionError"),
          hvd |-> NoReq]
  ELSE LET r == collect_eval_info(runner[p], fetches_results) IN
       IF sync_params_due(r, r.step, FALSE)
         THEN [pc |-> "sync_params", runner |-> r, hvd |-> SyncReq]
         ELSE EndOfStep(r)

\* sess.run(fetches_dict, feed_dict) returns: with Horovod in all processes at
\* once, with the same reduced values.
SessRunReturns(Fetches) ==
  /\ \A p \in Procs : pc[p] = "sess_run"
  /\ \E f \in Fetches :
       /\ pc' = [p \in Procs |-> AfterSessRun(p, f).pc]
       /\ runner' = [p \in Procs |-> AfterSessRun(p, f).runner]
       /\ hvd' = [p \in Procs |-> AfterSessRun(p, f).hvd]
       /\ trace' = [trace EXCEPT
            !.log = [p \in Procs |->
               IF collect_eval_info_ok(f)
                 THEN [trace.log[p] EXCEPT !.fetched = Append(@, f), !.callbacks = @ + 1]
                 ELSE trace.log[p]]]
  /\ UNCHANGED <<config, data_provider, engine, files, epochData>>

\* sess.run raises tf.errors.OpError in process p (a device fault).
SessRunOpError(p) ==
  /\ EventLeft
  /\ pc[p] = "sess_run"
  /\ runner' = [runner EXCEPT ![p] = except_clause(@, "OpError")]
  /\ hvd' = [hvd EXCEPT ![p] = NoReq]
  /\ pc' = [pc EXCEPT ![p] = "finally"]
  /\ UNCHANGED <<config, data_provider, engine, files, epochData>>
  /\ trace' = [trace EXCEPT !.events = @ + 1, !.log[p].op_error = TRUE]

\* A KeyboardInterrupt reaches process p during the session call.
KeyboardInterrupt(p) ==
  /\ EventLeft
  /\ pc[p] = "sess_run"
  /\ runner' = [runner EXCEPT ![p] = except_clause(@, "KeyboardInterrupt")]
  /\ hvd' = [hvd EXCEPT ![p] = NoReq]
  /\ pc' = [pc EXCEPT ![p] = "finally"]
  /\ UNCHANGED <<config, data_provider, engine, files, epochData>>
  /\ trace' = [trace EXCEPT !.events = @ + 1]

\* The code after the allreduce of _horovod_sync_params returned.
AfterSyncRound(p) ==
  IF pc[p] = "sync_params" THEN EndOfStep(runner[p])
  ELSE [pc |-> "finally", runner |-> runner[p], hvd |-> NoReq]

\* One parameter-averaging allreduce: every process is in it.
SyncRound ==
  /\ \A p \in Procs : hvd[p].op = "sync_params"
  /\ pc' = [p \in Procs |-> AfterSyncRound(p).pc]
  /\ runner' = [p \in Procs |-> AfterSyncRound(p).runner]
  /\ hvd' = [p \in Procs |-> AfterSyncRound(p).hvd]
  /\ trace' = [trace EXCEPT
       !.log = [p \in Procs |-> [trace.log[p] EXCEPT !.syncs = Append(@, runner[p].step)]]]
  /\ UNCHANGED <<config, data_provider, engine, files, epochData>>

\* The parameter allreduce fails: the session call raises in every process.
SyncRoundFails ==
  /\ EventLeft
  /\ \A p \in Procs : hvd[p].op = "sync_params"
  /\ pc' = [p \in Procs |-> "finally"]
  /\ runner' = [p \in Procs |-> except_clause(runner[p], "OpError")]
  /\ hvd' = [p \in Procs |-> NoReq]
  /\ UNCHANGED <<config, data_provider, engine, files, epochData>>
  /\ trace' = [trace EXCEPT !.events = @ + 1]

\* The code after the loop: the reached-end check, _finalize,
\* _horovod_finish_data, the final _horovod_sync_params.
AfterLoop(p) ==
  /\ pc[p] = "after_loop"
  /\ LET r == runner[p] IN
     IF ~r.hvd_stop /\ ~have_reached_end(p) THEN
       /\ runner' = [runner EXCEPT ![p] = except_clause(r, "Exception")]
       /\ pc' = [pc EXCEPT ![p] = "finally"]
       /\ UNCHANGED <<hvd, trace>>
     ELSE IF ~finalize_ok(r) THEN
       /\ runner' = [runner EXCEPT ![p] = except_clause(r, "AssertionError")]
       /\ pc' = [pc EXCEPT ![p] = "finally"]
       /\ UNCHANGED <<hvd, trace>>
     ELSE
       /\ runner' = [runner EXCEPT ![p] = finalize(r, r.step)]
       /\ IF signal_returns_at_once(p) THEN
            /\ trace' = [trace EXCEPT
                 !.log[p] = LogSignal(@, FALSE, signal_result_at_once(p))]
            /\ IF sync_params_due(r, r.step, TRUE)
                 THEN /\ hvd' = [hvd EXCEPT ![p] = SyncReq]
                      /\ pc' = [pc EXCEPT ![p] = "final_sync"]
                 ELSE /\ pc' = [pc EXCEPT ![p] = "finally"]
                      /\ UNCHANGED hvd
          ELSE
            /\ hvd' = [hvd EXCEPT ![p] = SignalReq(FALSE, FALSE)]
            /\ pc' = [pc EXCEPT ![p] = "signal_finish"]
            /\ UNCHANGED trace
  /\ UNCHANGED <<config, data_provider, engine, files, epochData>>

\* Util.try_and_ignore_exception(f): f is called, an exception it raises is
\* reported and ignored.
try_and_ignore_exception(attempted, f) == Append(attempted, f)

\* finally: try_and_ignore_exception(self._horovod_signal_error)
Finally(p) ==
  /\ pc[p] = "finally"
  /\ LET l == [trace.log[p] EXCEPT
                 !.cleanup = try_and_ignore_exception(@, "horovod_signal_error")]
     IN IF signal_returns_at_once(p)
          THEN /\ trace' = [trace EXCEPT
                    !.log[p] = LogSignal(l, FALSE, signal_result_at_once(p))]
               /\ pc' = [pc EXCEPT ![p] = "cleanup"]
               /\ UNCHANGED hvd
          ELSE /\ trace' = [trace EXCEPT !.log[p] = l]
               /\ hvd' = [hvd EXCEPT ![p] = SignalReq(FALSE, TRUE)]
               /\ pc' = [pc EXCEPT ![p] = "signal_error"]
  /\ UNCHANGED <<config, runner, data_provider, engine, files, epochData>>

WriterCleanup == <<"writer.close", "stop_event_writer_thread">>
ThreadCleanup == <<"coord.request_stop", "coord.join", "data_provider.stop_threads">>

RECURSIVE TryAll(_, _)
TryAll(attempted, fs) ==
  IF fs = <<>> THEN attempted
  ELSE TryAll(try_and_ignore_exception(attempted, Head(fs)), Tail(fs))

\* A variant that leaves the batch-producer threads running.
CleanupActions_NoStopThreads(r) ==
  (IF r.writer # "none" THEN WriterCleanup ELSE <<>>)
    \o SubSeq(ThreadCleanup, 1, Len(ThreadCleanup) - 1)

\* The cleanup actions of the finally clause, in order.
CleanupActions(r) == (IF r.writer # "none" THEN WriterCleanup ELSE <<>>) \o ThreadCleanup

\* The rest of the finally clause; `failed` are the cleanup actions that raise.
Cleanup(p) ==
  /\ pc[p] = "cleanup"
  /\ \E failed \in SUBSET {"writer.close", "data_provider.stop_threads"} :
       /\ failed # {} => EventLeft
       /\ trace' = [trace EXCEPT
            !.events = @ + (IF failed # {} THEN 1 ELSE 0),
            !.log[p].cleanup = TryAll(@, CleanupActions(runner[p]))]
       /\ runner' = [runner EXCEPT
            ![p].writer = IF @ = "open" /\ "writer.close" \notin failed THEN "closed" ELSE @]
       /\ data_provider' = [data_provider EXCEPT
            ![p].threads_running = "data_provider.stop_threads" \in failed]
  /\ pc' = [pc EXCEPT ![p] = "returned"]
  /\ UNCHANGED <<config, hvd, engine, files, epochData>>

----------------------------------------------------------------------------
(* Engine: checkpoints and train_epoch. *)

\* A checkpoint file name: the epoch's model filename plus a suffix; tag <<>> is
\* the canonical checkpoint, <<"crash", k>> is ".crash_k", <<"broken">> is ".broken".
get_epoch_model_filename(epoch) == [epoch |-> epoch, tag |-> <<>>]
CrashName(fn, k) == [fn EXCEPT !.tag = <<"crash", k>>]
BrokenName(fn) == [fn EXCEPT !.tag = <<"broken">>]

\* Engine.save_model: the files on disk after the call (a written checkpoint
\* is not empty).
save_model(p, fs, filename) == IF do_save(p) THEN (filename :> 1) @@ fs ELSE fs

\* LearningRateControl.setEpochError(epoch, {name: dict}): a dict with one entry
\* is stored under `name`, an empty dict adds nothing.
FlattenError(name, d) ==
  IF Cardinality(DOMAIN d) = 1
    THEN [k \in {name} |-> d[CHOOSE x \in DOMAIN d : TRUE]]
    ELSE [k \in {name \o "_" \o x[2] : x \in DOMAIN d} |->
            d[CHOOSE x \in DOMAIN d : name \o "_" \o x[2] = k]]

DictUpdate(a, b) ==
  [k \in (DOMAIN a) \cup (DOMAIN b) |-> IF k \in DOMAIN b THEN b[k] ELSE a[k]]

setEpochError(ed, epoch, error) ==
  [e \in (DOMAIN ed) \cup {epoch} |->
     IF e = epoch
       THEN DictUpdate(IF e \in DOMAIN ed THEN ed[e] ELSE EmptyDict, error)
       ELSE ed[e]]

\* A variant that looks for inf only.
score_nonfinite_InfOnly(score) == \E k \in DOMAIN score : isinf(score[k])

\* any(numpy.isinf(score.values())) or any(numpy.isnan(score.values()))
score_nonfinite(score) ==
  (\E k \in DOMAIN score : isinf(score[k])) \/ (\E k \in DOMAIN score : isnan(score[k]))

\* The rate of every epoch as the learning rate controller gives it:
\* LearningRateControl.getLearningRateForEpoch reads it,
\* setDefaultLearningRateForEpoch writes it.
getLearningRateForEpoch(rates, epoch) == rates[epoch]

setDefaultLearningRateForEpoch(rates, epoch, rate) == [rates EXCEPT ![epoch] = rate]

DefaultLearningRates == [e \in 1 .. MaxStoredEpoch |-> One]

\* What the log of runs holds of a run that returned.
RunRecord(p, name) ==
  [epoch |-> engine[p].epoch, name |-> name,
   finalized |-> runner[p].finalized, score |-> runner[p].score]

\* if self._do_save(): self.learning_rate_control.save(): the call that
\* writes the learning-rate history to its file, as the log of runs holds it.
learning_rate_control_save(p) ==
  IF do_save(p) THEN <<RunRecord(p, "learning_rate_control.save")>> ELSE <<>>

\* Engine.train_epoch: a non-finite final score ends the training unless
\* stop_on_nonfinite_train_score is false.
model_broken_Never(trainer, cfg) == FALSE

model_broken(trainer, cfg) ==
  score_nonfinite(trainer.score) /\ cfg.stop_on_nonfinite_train_score

\* The layers of a network description and the size each may have.
LayerNames == {"hidden", "output"}
LayerSizes == {1, 2}

\* The network descriptions: every one has the output layer.
NetDescs ==
  UNION {[ls -> LayerSizes] : ls \in {x \in SUBSET LayerNames : "output" \in x}}

DefaultNetDesc == [l \in LayerNames |-> 1]

\* TFNetwork of a description: every layer has one parameter of the layer's
\* size; value tells where the parameter's value comes from ("random" is the
\* initializer, "trained" the training so far, "loaded" a model file).
\* builds counts the constructions of a network (Engine._init_network).
NewNetwork(desc, value, builds) ==
  [layers_desc |-> desc,
   params |-> [l \in DOMAIN desc |-> [shape |-> desc[l], value |-> value]],
   builds |-> builds]

NewEngine ==
  [epoch |-> 1, exit_code |-> -1, learning_rate |-> One,
   learning_rates |-> DefaultLearningRates,
   eval_todo |-> <<>>,          \* the datasets eval_model has still to run
   network |-> NewNetwork(DefaultNetDesc, "trained", 1),
   loaded_epoch |-> 0,          \* the epoch load_model was last called with
   optimizer_inits |-> 0,       \* calls of updater.init_optimizer_vars
   last_epoch_error |-> None,   \* learning_rate_control.getEpochErrorValue(epoch - 1)
   last_best_epoch |-> 0]       \* learning_rate_control.getLastBestEpoch(...), 0 is None

\* The option use_last_best_model when it is not set.
NoLastBestModel == [is_true |-> FALSE, modulo |-> 1, filter_score |-> Inf]

\* Engine.is_pretrain_epoch; cfg.pretrain is the number of pretrain epochs,
\* 0 when there is no pretraining (self.pretrain is None).
is_pretrain_epoch(epoch, cfg) == cfg.pretrain # 0 /\ epoch <= cfg.pretrain

\* Engine.is_first_epoch_after_pretrain.
is_first_epoch_after_pretrain(epoch, cfg) == cfg.pretrain # 0 /\ epoch = cfg.pretrain + 1

\* A variant of init_train_epoch that tests the pretrain epoch first.
init_train_epoch_PretrainFirst(e, cfg) ==
  IF is_pretrain_epoch(e.epoch, cfg) THEN
    [e EXCEPT !.learning_rate = cfg.pretrain_learning_rate,
              !.learning_rates = setDefaultLearningRateForEpoch(@, e.epoch, cfg.pretrain_learning_rate)]
  ELSE IF cfg.use_learning_rate_control_always THEN
    [e EXCEPT !.learning_rate = getLearningRateForEpoch(e.learning_rates, e.epoch)]
  ELSE IF is_first_epoch_after_pretrain(e.epoch, cfg) THEN
    [e EXCEPT !.learning_rate = cfg.initial_learning_rate,
              !.learning_rates = setDefaultLearningRateForEpoch(@, e.epoch, cfg.initial_learning_rate)]
  ELSE
    [e EXCEPT !.learning_rate = getLearningRateForEpoch(e.learning_rates, e.epoch)]

\* Engine.init_train_epoch: the learning rate of the epoch.
init_train_epoch(e, cfg) ==
  IF cfg.use_learning_rate_control_always THEN
    [e EXCEPT !.learning_rate = getLearningRateForEpoch(e.learning_rates, e.epoch)]
  ELSE IF is_pretrain_epoch(e.epoch, cfg) THEN
    [e EXCEPT !.learning_rate = cfg.pretrain_learning_rate,
              !.learning_rates = setDefaultLearningRateForEpoch(@, e.epoch, cfg.pretrain_learning_rate)]
  ELSE IF is_first_epoch_after_pretrain(e.epoch, cfg) THEN
    [e EXCEPT !.learning_rate = cfg.initial_learning_rate,
              !.learning_rates = setDefaultLearningRateForEpoch(@, e.epoch, cfg.initial_learning_rate)]
  ELSE
    [e EXCEPT !.learning_rate = getLearningRateForEpoch(e.learning_rates, e.epoch)]

\* The "#config" entries a network description may have.
NetConfigs ==
  {[has |-> FALSE, entries |-> EmptyDict, learning_rate |-> None]}
    \cup {[has |-> TRUE, entries |-> d, learning_rate |-> lr] :
            d \in UNION {[ks -> {1, 2}] :
                           ks \in SUBSET {"batch_size", "max_seq_length", "gradient_clip"}},
            lr \in {None, Float(1, 2)}}

\* The keys of the config file, and those of them that _maybe_update_config
\* treats as batching-related (line 986).
ConfigKeys == {"batch_size", "max_seq_length", "gradient_clip"}

BatchingKeys ==
  {"batch_size", "max_seq_length", "max_seqs", "inc_seq_length", "seq_drop", "seq_drop_freq"}

\* The attribute of the engine for a value of a batching-related key:
\* max_seq_length of 0 is sys.maxsize.
AttribValue(key, value) ==
  IF key = "max_seq_length" /\ value = 0
    THEN [maxsize |-> TRUE, value |-> 0]
    ELSE [maxsize |-> FALSE, value |-> value]

\* set_value of _maybe_update_config.
set_value(e, key, value) ==
  IF key \in BatchingKeys
    THEN [e EXCEPT !.typed_dict[key] = value,
                   !.dataset_batches = {},
                   !.attribs[key] = AttribValue(key, value)]
    ELSE [e EXCEPT !.typed_dict[key] = value]

\* for key, value in d.items(): set_value(key, value)
RECURSIVE SetValues(_, _, _)
SetValues(e, d, keys) ==
  IF keys = {} THEN e
  ELSE LET key == CHOOSE k \in keys : TRUE
       IN SetValues(set_value(e, key, d[key]), d, keys \ {key})

\* The description of a network without "#config".
NoNetConfig == [has |-> FALSE, entries |-> EmptyDict, learning_rate |-> None]

\* A variant that does not recover the entries updated before.
maybe_update_config_NoRecover(e, net_config) ==
  IF ~net_config.has THEN e
  ELSE
    LET e2 == SetValues(e, net_config.entries, DOMAIN net_config.entries)
        e3 == [e2 EXCEPT !.orig_config =
                 [k \in DOMAIN net_config.entries |-> e.typed_dict[k]]]
    IN IF net_config.learning_rate = None THEN e3
       ELSE [e3 EXCEPT !.learning_rates[e.epoch] = net_config.learning_rate]

\* Engine._maybe_update_config; net_config is net_desc["#config"]: its
\* entries but learning_rate, and its learning_rate.
maybe_update_config(e, net_config) ==
  LET e1 == IF DOMAIN e.orig_config # {}
              THEN [SetValues(e, e.orig_config, DOMAIN e.orig_config)
                      EXCEPT !.orig_config = EmptyDict]
              ELSE e
  IN IF ~net_config.has THEN e1
     ELSE
       LET e2 == SetValues(e1, net_config.entries, DOMAIN net_config.entries)
           e3 == [e2 EXCEPT !.orig_config =
                    [k \in DOMAIN net_config.entries |-> e1.typed_dict[k]]]
       IN IF net_config.learning_rate = None THEN e3
          ELSE [e3 EXCEPT !.learning_rates[e.epoch] = net_config.learning_rate]

\* Engine._init_network(net_desc): the config is updated, the network built.
InitNetwork(p) ==
  /\ pc[p] = "init_network"
  /\ engine[p].network.builds <= MaxInits
  /\ \E net_config \in NetConfigs :
       engine' = [engine EXCEPT ![p] =
         [maybe_update_config(@, net_config) EXCEPT
            !.network = NewNetwork(DefaultNetDesc, "random", @.builds + 1),
            !.prev_overridden = DOMAIN engine[p].net_config.entries,
            !.net_config = net_config]]
  /\ UNCHANGED <<config, pc, runner, data_provider, hvd, files, epochData, trace>>

\* Engine.train_epoch, lines 1246-1247: the batches of the train data are
\* generated and cached.
CacheBatches(p) ==
  /\ pc[p] = "init_network"
  /\ "train" \notin engine[p].dataset_batches
  /\ engine' = [engine EXCEPT ![p].dataset_batches = @ \cup {"train"}]
  /\ UNCHANGED <<config, pc, runner, data_provider, hvd, files, epochData, trace>>

\* network.get_output_layers(): the names of the output layers.
get_output_layers(net) == {l \in DOMAIN net.layers_desc : l = "output"}

\* TFNetwork.set_params_by_serialized raises on an old parameter that is
\* missing in the serialized values unless ignore_non_existing, and on one of
\* another shape unless ignore_wrong_shape.
set_params_raises(net, values_dict, ignore_wrong_shape, ignore_non_existing) ==
  \E l \in DOMAIN net.params :
    \/ l \notin DOMAIN values_dict /\ ~ignore_non_existing
    \/ l \in DOMAIN values_dict /\ values_dict[l].shape # net.params[l].shape
         /\ ~ignore_wrong_shape

\* TFNetwork.set_params_by_serialized: every parameter of the network that
\* the serialized values have in the same shape takes the serialized value.
set_params_by_serialized(net, values_dict) ==
  [net EXCEPT !.params =
     [l \in DOMAIN @ |->
        IF l \in DOMAIN values_dict /\ values_dict[l].shape = @[l].shape
          THEN values_dict[l] ELSE @[l]]]

\* A variant that builds the network anew whatever the description.
maybe_init_new_network_Always(e, net_desc, cfg) ==
  LET pretrain_epoch == is_pretrain_epoch(e.epoch, cfg)
      old_network_params == e.network.params
      new_network == NewNetwork(net_desc, "random", e.network.builds + 1)
      dropped == IF pretrain_epoch /\ ~cfg.copy_output_layer
                   THEN get_output_layers(new_network) ELSE {}
      values_dict == [l \in (DOMAIN old_network_params) \ dropped |-> old_network_params[l]]
  IN [e EXCEPT !.network = set_params_by_serialized(new_network, values_dict)]

\* Engine.maybe_init_new_network, when set_params_by_serialized does not raise.
maybe_init_new_network(e, net_desc, cfg) ==
  IF e.network.layers_desc = net_desc THEN e
  ELSE
    LET pretrain_epoch == is_pretrain_epoch(e.epoch, cfg)
        old_network_params == e.network.params
        new_network == NewNetwork(net_desc, "random", e.network.builds + 1)
        \* "ifpossible" and True of copy_output_layer are the same here
        dropped == IF pretrain_epoch /\ ~cfg.copy_output_layer
                     THEN get_output_layers(new_network) ELSE {}
        values_dict == [l \in (DOMAIN old_network_params) \ dropped |-> old_network_params[l]]
    IN [e EXCEPT !.network = set_params_by_serialized(new_network, values_dict)]

\* Whether Engine.maybe_init_new_network raises: ignore_wrong_shape and
\* ignore_non_existing are both is_pretrain_epoch().
maybe_init_new_network_raises(e, net_desc, cfg) ==
  /\ e.network.layers_desc # net_desc
  /\ LET pretrain_epoch == is_pretrain_epoch(e.epoch, cfg)
         new_network == NewNetwork(net_desc, "random", e.network.builds + 1)
         dropped == IF pretrain_epoch /\ ~cfg.copy_output_layer
                      THEN get_output_layers(new_network) ELSE {}
         values_dict == [l \in (DOMAIN e.network.params) \ dropped |-> e.network.params[l]]
     IN set_params_raises(new_network, values_dict, pretrain_epoch, pretrain_epoch)

\* Engine.init_train_epoch, lines 1187-1190: the network of a pretrain epoch.
\* cfg.pretrain_net_desc is pretrain.get_network_json_for_epoch(epoch).
init_pretrain_network(e, cfg) ==
  IF is_pretrain_epoch(e.epoch, cfg)
    THEN maybe_init_new_network(e, cfg.pretrain_net_desc, cfg)
    ELSE e

\* LearningRateControl.getEpochErrorValue(epoch - 1) and getLastBestEpoch of
\* the epochs before the current one, as the controller holds them.
getEpochErrorValue(e) == e.last_epoch_error

getLastBestEpoch(e) == e.last_best_epoch

\* Engine.load_model(epoch): every parameter takes the value of the model file.
load_model(e, epoch) ==
  [e EXCEPT !.network.params = [l \in DOMAIN @ |-> [@[l] EXCEPT !.value = "loaded"]],
            !.loaded_epoch = epoch]

\* A variant that looks for a better model in pretrain epochs too.
maybe_use_better_last_model_InPretrain(e, cfg) ==
  LET opts == cfg.use_last_best_model
      last_best_epoch == getLastBestEpoch(e)
  IN IF ~opts.is_true THEN e
     ELSE IF e.epoch % opts.modulo # 0
             /\ FloatLeq(OrZero(getEpochErrorValue(e)), opts.filter_score) THEN e
     ELSE IF last_best_epoch # 0 /\ last_best_epoch # e.epoch - 1 THEN
       [load_model(e, last_best_epoch) EXCEPT !.optimizer_inits = @ + 1]
     ELSE e

\* Engine._maybe_use_better_last_model.
maybe_use_better_last_model(e, cfg) ==
  LET opts == cfg.use_last_best_model
      last_best_epoch == getLastBestEpoch(e)
  IN IF ~opts.is_true THEN e
     ELSE IF is_pretrain_epoch(e.epoch, cfg) THEN e
     ELSE IF e.epoch % opts.modulo # 0
             /\ FloatLeq(OrZero(getEpochErrorValue(e)), opts.filter_score) THEN e
     ELSE IF last_best_epoch # 0 /\ last_best_epoch # e.epoch - 1 THEN
       [load_model(e, last_best_epoch) EXCEPT !.optimizer_inits = @ + 1]
     ELSE e

InitTrainEpoch(p) ==
  /\ pc[p] = "init_train_epoch"
  /\ engine' = [engine EXCEPT ![p] =
        maybe_use_better_last_model(
          init_train_epoch(init_pretrain_network(@, config), config), config)]
  /\ pc' = [pc EXCEPT ![p] = "train_epoch"]
  /\ UNCHANGED <<config, runner, data_provider, hvd, files, epochData, trace>>

\* Engine.get_eval_datasets: dev, then eval, each if it is set.
get_eval_datasets(cfg) ==
  (IF cfg.dev_data THEN <<"dev">> ELSE <<>>) \o (IF cfg.eval_data THEN <<"eval">> ELSE <<>>)

\* Engine.eval_model up to its loop over the datasets.
EvalModel(p) ==
  /\ pc[p] = "eval_model"
  /\ engine' = [engine EXCEPT ![p].eval_todo = get_eval_datasets(config)]
  /\ pc' = [pc EXCEPT ![p] = "eval_dataset"]
  /\ UNCHANGED <<config, runner, data_provider, hvd, files, epochData, trace>>

\* The head of the loop of eval_model: a new Runner (train_in_eval is false)
\* on the next dataset; after the last one eval_model returns to train_epoch,
\* which calls cleanup_old_models if the option is set and then returns.
EvalDataset(p) ==
  /\ pc[p] = "eval_dataset"
  /\ IF engine[p].eval_todo # <<>> THEN
       /\ runner' = [runner EXCEPT ![p] = NewRunner(FALSE)]
       /\ data_provider' = [data_provider EXCEPT ![p] = NewDataProvider]
       /\ trace' = [trace EXCEPT !.log[p] = NewLog]
       /\ pc' = [pc EXCEPT ![p] = "run"]
     ELSE IF config.has_cleanup_old_models THEN
       /\ trace' = [trace EXCEPT !.runs[p] = Append(@, RunRecord(p, "cleanup_old_models"))]
       /\ pc' = [pc EXCEPT ![p] = "cleanup_old_models"]
       /\ UNCHANGED <<runner, data_provider>>
     ELSE
       /\ pc' = [pc EXCEPT ![p] = "epoch_done"]
       /\ UNCHANGED <<runner, data_provider, trace>>
  /\ UNCHANGED <<config, hvd, engine, files, epochData>>

\* eval_model: a tester that is not finalized ends the process.
tester_quits_Never(tester) == FALSE

tester_quits(tester) == ~tester.finalized

\* eval_model after tester.run() returned.
EvalModelAfterRun(p) ==
  /\ pc[p] = "returned"
  /\ ~runner[p].should_train
  /\ LET tester == runner[p]
         dataset_name == Head(engine[p].eval_todo)
     IN IF tester_quits(tester) THEN
          /\ engine' = [engine EXCEPT ![p].exit_code = 1]
          /\ pc' = [pc EXCEPT ![p] = "exited"]
          /\ UNCHANGED epochData
        ELSE
          /\ epochData' = IF dataset_name = "dev"
               THEN [epochData EXCEPT ![p] =
                       setEpochError(@, engine[p].epoch,
                         DictUpdate(FlattenError("dev_score", tester.score),
                                    FlattenError("dev_error", tester.error)))]
               ELSE epochData
          /\ engine' = [engine EXCEPT ![p].eval_todo = Tail(@)]
          /\ pc' = [pc EXCEPT ![p] = "eval_dataset"]
  /\ trace' = [trace EXCEPT !.runs[p] =
       Append(@, RunRecord(p, Head(engine[p].eval_todo)))
         \o (IF ~tester_quits(runner[p]) /\ Head(engine[p].eval_todo) = "dev"
              THEN learning_rate_control_save(p) ELSE <<>>)]
  /\ UNCHANGED <<config, runner, data_provider, hvd, files>>

\* The loop of Engine.train from the given epoch on: the next epoch, or after
\* the last one the save of the last model.
\* e is the engine as the loop finds it. final_epoch 0 stands for
\* sys.maxsize, which no epoch of a behaviour exceeds; the epochs of a
\* behaviour end at MaxEpoch.
EpochLoop_NoLastSave(p, e, epoch) ==
  IF config.final_epoch = 0 \/ epoch <= config.final_epoch THEN
    /\ epoch <= MaxEpoch
    /\ engine' = [engine EXCEPT ![p] = [e EXCEPT !.epoch = epoch]]
    /\ pc' = [pc EXCEPT ![p] = "init_train_epoch"]
    /\ UNCHANGED files
  ELSE
    /\ pc' = [pc EXCEPT ![p] = "train_done"]
    /\ engine' = [engine EXCEPT ![p] = e]
    /\ UNCHANGED files

EpochLoop(p, e, epoch) ==
  IF config.final_epoch = 0 \/ epoch <= config.final_epoch THEN
    /\ epoch <= MaxEpoch
    /\ engine' = [engine EXCEPT ![p] = [e EXCEPT !.epoch = epoch]]
    /\ pc' = [pc EXCEPT ![p] = "init_train_epoch"]
    /\ UNCHANGED files
  ELSE
    /\ files' = IF config.start_epoch <= config.final_epoch /\ config.model_filename
                  THEN save_model(p, files, get_epoch_model_filename(e.epoch))
                  ELSE files
    /\ pc' = [pc EXCEPT ![p] = "train_done"]
    /\ engine' = [engine EXCEPT ![p] = e]

\* Engine.check_last_epoch with a learning rate control that needs no error
\* info: nothing when start_epoch is 1, else self.epoch = start_epoch - 1.
check_last_epoch(e, cfg) ==
  IF cfg.start_epoch = 1 THEN e ELSE [e EXCEPT !.epoch = cfg.start_epoch - 1]

\* Engine.train up to the first epoch; start_epoch >= 1 is asserted.
Train(p) ==
  /\ pc[p] = "train"
  /\ config.start_epoch >= 1
  /\ EpochLoop(p, check_last_epoch(engine[p], config), config.start_epoch)
  /\ UNCHANGED <<config, runner, data_provider, hvd, epochData, trace>>

\* Engine.train after train_epoch returned: epoch += 1.
TrainEpochDone(p) ==
  /\ pc[p] = "epoch_done"
  /\ EpochLoop(p, engine[p], engine[p].epoch + 1)
  /\ UNCHANGED <<config, runner, data_provider, hvd, epochData, trace>>

\* Engine.train_epoch up to trainer.run(): a new Runner on the train data.
TrainEpoch(p) ==
  /\ pc[p] = "train_epoch"
  /\ runner' = [runner EXCEPT ![p] = NewRunner(TRUE)]
  /\ data_provider' = [data_provider EXCEPT ![p] = NewDataProvider]
  /\ trace' = [trace EXCEPT !.log[p] = NewLog]
  /\ pc' = [pc EXCEPT ![p] = "run"]
  /\ UNCHANGED <<config, hvd, engine, files, epochData>>

\* Engine.train_epoch after trainer.run() returned, up to eval_model().
TrainEpochAfterRun(p) ==
  /\ pc[p] = "returned"
  /\ runner[p].should_train
  /\ LET trainer == runner[p]
         fn == get_epoch_model_filename(engine[p].epoch)
     IN IF ~trainer.finalized THEN
          /\ files' = IF trainer.device_crash_batch # -1
                        THEN save_model(p, files, CrashName(fn, trainer.device_crash_batch))
                        ELSE files
          /\ engine' = [engine EXCEPT ![p].exit_code = 1]
          /\ pc' = [pc EXCEPT ![p] = "exited"]
          /\ UNCHANGED epochData
        ELSE IF model_broken(trainer, config) THEN
          /\ files' = save_model(p, files, BrokenName(fn))
          /\ engine' = [engine EXCEPT ![p].exit_code = 1]
          /\ pc' = [pc EXCEPT ![p] = "exited"]
          /\ UNCHANGED epochData
        ELSE
          /\ files' = IF config.model_filename
                         /\ engine[p].epoch % config.save_interval = 0
                        THEN save_model(p, files, fn)
                        ELSE files
          /\ epochData' = [epochData EXCEPT ![p] =
               setEpochError(@, engine[p].epoch,
                 DictUpdate(FlattenError("train_score", trainer.score),
                            FlattenError("train_error", trainer.error)))]
          /\ pc' = [pc EXCEPT ![p] = "eval_model"]
          /\ UNCHANGED engine
  /\ trace' = [trace EXCEPT !.runs[p] =
       Append(@, RunRecord(p, "train"))
         \o (IF runner[p].finalized /\ ~model_broken(runner[p], config)
              THEN learning_rate_control_save(p) ELSE <<>>)]
  /\ UNCHANGED <<config, runner, data_provider, hvd>>

----------------------------------------------------------------------------
(* Runner._get_fetches_dict.  A graph node is the serial number of its     *)
(* creation; g is the graph with its caches: [num_nodes, const_cache,      *)
(* global_tensors, num_dicts].                                             *)

\* The nodes the network holds: objective, loss value, error value and norm
\* factor of its one loss "ce" (made when the network was constructed).
NetworkNodes == [objective |-> 1, loss_value |-> 2, error_value |-> 3, norm_factor |-> 4]

NewGraph == [num_nodes |-> 4, const_cache |-> <<>>, global_tensors |-> <<>>, num_dicts |-> 0]

\* A node made now: [g, node].
NewNode(g) == [g |-> [g EXCEPT !.num_nodes = @ + 1], node |-> g.num_nodes + 1]

\* A variant of get_const_tensor that makes a new constant on every call.
get_const_tensor_Uncached(g, key) == NewNode(g)

\* Engine.get_const_tensor: [g, node].
get_const_tensor(g, key) ==
  IF key \notin DOMAIN g.const_cache
    THEN LET n == NewNode(g)
         IN [g |-> [n.g EXCEPT !.const_cache = (key :> n.node) @@ @], node |-> n.node]
    ELSE [g |-> g, node |-> g.const_cache[key]]

\* TFUtil.global_tensor(f, name): the node made by f on the first call with
\* that name, the same node afterwards.
global_tensor(g, name) ==
  IF name \notin DOMAIN g.global_tensors
    THEN LET n == NewNode(g)
         IN [g |-> [n.g EXCEPT !.global_tensors = (name :> n.node) @@ @], node |-> n.node]
    ELSE [g |-> g, node |-> g.global_tensors[name]]

\* reduce_sum and inv_reduce_sum of _get_fetches_dict: x itself without
\* Horovod, else the global tensor of the allreduce named after the key.
reduce_sum(g, x, name, cfg) ==
  IF ~cfg.use_horovod THEN [g |-> g, node |-> x] ELSE global_tensor(g, name)

\* Runner._get_fetches_dict: [g, d], d the new dict [id, items]; the network
\* has one loss, no stats, no extra fetches, no summaries.
get_fetches_dict(g0, should_train, cfg) ==
  LET loss == IF cfg.objective_is_zero
                THEN get_const_tensor(g0, "zero_loss")
                ELSE [g |-> g0, node |-> NetworkNodes.objective]
      l == reduce_sum(loss.g, loss.node, "fetch_reduce_sum__loss", cfg)
      c == reduce_sum(l.g, NetworkNodes.loss_value, "fetch_reduce_sum__cost__ce", cfg)
      e == reduce_sum(c.g, NetworkNodes.error_value, "fetch_reduce_sum__error__ce", cfg)
      n == reduce_sum(e.g, NetworkNodes.norm_factor, "fetch_inv_reduce_sum__loss_norm_factor__ce", cfg)
      o == IF should_train THEN global_tensor(n.g, "optim_op") ELSE [g |-> n.g, node |-> 0]
      items == ("loss" :> l.node) @@ ("cost:ce" :> c.node) @@ ("error:ce" :> e.node)
                 @@ ("loss_norm_factor:ce" :> n.node)
                 @@ (IF should_train THEN ("optim_op" :> o.node) ELSE <<>>)
  IN [g |-> [o.g EXCEPT !.num_dicts = @ + 1],
      d |-> [id |-> o.g.num_dicts + 1, items |-> items]]

NoDict == [id |-> 0, items |-> <<>>]

\* Runner.run up to the loop: fetches_dict = self._get_fetches_dict().
RunGetsFetches(p) ==
  /\ pc[p] = "get_fetches"
  /\ LET r == get_fetches_dict(engine[p].graph, runner[p].should_train, config)
     IN /\ engine' = [engine EXCEPT ![p].graph = r.g]
        /\ runner' = [runner EXCEPT ![p].fetches_dict = r.d]
        /\ trace' = [trace EXCEPT !.built[p] = Append(@, r.d),
                                  !.nodes[p] = Append(@, r.g.num_nodes)]
  /\ pc' = [pc EXCEPT ![p] = "loop"]
  /\ UNCHANGED <<config, data_provider, hvd, files, epochData>>

\* One step of the loop of Runner.run: sess.run(fetches_dict, feed_dict).
StepRunsFetches(p) ==
  /\ pc[p] = "loop"
  /\ runner[p].step < MaxBatches
  /\ runner' = [runner EXCEPT ![p].step = @ + 1]
  /\ trace' = [trace EXCEPT !.used[p] = Append(@, runner[p].fetches_dict)]
  /\ UNCHANGED <<config, pc, data_provider, hvd, engine, files, epochData>>

\* Another call of _get_fetches_dict on the Runner while it runs.
GetFetchesDict(p) ==
  /\ pc[p] \in {"get_fetches", "loop"}
  /\ trace.events < MaxEvents
  /\ LET r == get_fetches_dict(engine[p].graph, runner[p].should_train, config)
     IN /\ engine' = [engine EXCEPT ![p].graph = r.g]
        /\ trace' = [trace EXCEPT !.built[p] = Append(@, r.d),
                                  !.nodes[p] = Append(@, r.g.num_nodes),
                                  !.events = @ + 1]
  /\ UNCHANGED <<config, pc, runner, data_provider, hvd, files, epochData>>

----------------------------------------------------------------------------
(* Engine: cleanup_old_models and delete_model. *)

RECURSIVE Digits(_)
Digits(n) ==
  LET char == <<"0", "1", "2", "3", "4", "5", "6", "7", "8", "9">>
  IN IF n < 10 THEN <<char[n + 1]>> ELSE Digits(n \div 10) \o <<char[(n % 10) + 1]>>

\* "%03d" % epoch
EpochStr(epoch) ==
  LET ds == Digits(epoch)
  IN IF Len(ds) >= 3 THEN ds ELSE [i \in 1 .. (3 - Len(ds)) |-> "0"] \o ds

\* The name of a checkpoint after the model filename, as a sequence of the
\* digits of the epoch and of the parts of the suffix.
FileName(f) ==
  EpochStr(f.epoch) \o
    (IF f.tag = <<>> THEN <<>>
     ELSE IF f.tag[1] = "crash" THEN <<".crash_">> \o Digits(f.tag[2])
     ELSE <<".broken">>)

IsPrefix(a, b) == Len(a) <= Len(b) /\ SubSeq(b, 1, Len(a)) = a

RECURSIVE SumBytes(_, _)
\* count_bytes: the sum of os.stat(fn).st_size over the names N.
SumBytes(fs, N) ==
  IF N = {} THEN 0
  ELSE LET f == CHOOSE x \in N : TRUE IN fs[f] + SumBytes(fs, N \ {f})

\* What glob(filename + "*") finds with a checkpoint extension.
GlobFiles(fs, filename) ==
  {f \in DOMAIN fs : IsPrefix(FileName(filename), FileName(f))}

\* A variant without the two assertions.
delete_model_NoAssert(fs, filename) ==
  LET found == GlobFiles(fs, filename)
  IN [ok |-> TRUE, files |-> [f \in DOMAIN fs \ found |-> fs[f]],
      count_bytes |-> SumBytes(fs, found)]

\* Engine.delete_model: asserts that the checkpoint exists, removes the files
\* found, asserts that they had bytes; ok = FALSE is a failed assertion.
delete_model(fs, filename) ==
  IF filename \notin DOMAIN fs
    THEN [ok |-> FALSE, files |-> fs, count_bytes |-> 0]
  ELSE LET found == GlobFiles(fs, filename)
           count_bytes == SumBytes(fs, found)
       IN [ok |-> count_bytes > 0,
           files |-> [f \in DOMAIN fs \ found |-> fs[f]],
           count_bytes |-> count_bytes]

\* The loop over remove_epochs at the end of cleanup_old_models.
RECURSIVE delete_models(_, _)
delete_models(fs, remove_epochs) ==
  IF remove_epochs = <<>> THEN [ok |-> TRUE, files |-> fs]
  ELSE LET d == delete_model(fs, get_epoch_model_filename(Head(remove_epochs)))
       IN IF d.ok THEN delete_models(d.files, Tail(remove_epochs))
          ELSE [ok |-> FALSE, files |-> d.files]

NoDeleted == [called |-> FALSE, filename |-> <<>>, before |-> <<>>, ok |-> TRUE, count_bytes |-> 0]

\* One call of Engine.delete_model(filename) by process p.
DeleteModel(p, filename) ==
  /\ pc[p] = "delete_model"
  /\ LET d == delete_model(files, filename)
     IN /\ files' = d.files
        /\ trace' = [trace EXCEPT !.deleted[p] =
             [called |-> TRUE, filename |-> filename, before |-> files,
              ok |-> d.ok, count_bytes |-> IF d.ok THEN d.count_bytes ELSE 0]]
        /\ pc' = [pc EXCEPT ![p] = IF d.ok THEN "epoch_done" ELSE "raised"]
  /\ UNCHANGED <<config, runner, data_provider, hvd, engine, epochData>>

\* TheanoEngine.get_existing_models: the epochs with a checkpoint on disk.
existing_models(fs) == {f.epoch : f \in {g \in DOMAIN fs : g.tag = <<>>}}

RECURSIVE sorted(_)
sorted(S) ==
  IF S = {} THEN <<>>
  ELSE LET m == CHOOSE x \in S : \A y \in S : x <= y
       IN <<m>> \o sorted(S \ {m})

Range(seq) == {seq[i] : i \in 1 .. Len(seq)}

\* A variant that takes one element less.
LastN_OneLess(seq, n) ==
  IF n - 1 >= Len(seq) THEN seq ELSE SubSeq(seq, Len(seq) - n + 2, Len(seq))

\* epochs[-n:] and scores[:n]
LastN(seq, n) == IF n >= Len(seq) THEN seq ELSE SubSeq(seq, Len(seq) - n + 1, Len(seq))
FirstN(seq, n) == IF n >= Len(seq) THEN seq ELSE SubSeq(seq, 1, n)

\* for i in count(1): n = keep_every * i ...
RECURSIVE Multiples(_, _, _)
Multiples(keep_every, i, last) ==
  LET n == keep_every * i
  IN IF n > last THEN {} ELSE {n} \cup Multiples(keep_every, i + 1, last)

\* for i in count(): n = keep_doubles_of * (2 ** i) ...
RECURSIVE Doubles(_, _)
Doubles(n, last) == IF n > last THEN {} ELSE {n} \cup Doubles(2 * n, last)

\* A variant with the first breakpoint below 10.
default_keep_pattern_Below10(last) ==
  LET keep_every == IF last < 10 THEN 4 ELSE IF last <= 50 THEN 20
                    ELSE IF last <= 100 THEN 40 ELSE 80
      keep_doubles_of == IF last < 10 THEN 5 ELSE IF last <= 50 THEN 5
                         ELSE IF last <= 100 THEN 10 ELSE 20
  IN Multiples(keep_every, 1, last) \cup Doubles(keep_doubles_of, last)

\* default_keep_pattern for the last stored epoch.
default_keep_pattern(last) ==
  LET keep_every == IF last <= 10 THEN 4 ELSE IF last <= 50 THEN 20
                    ELSE IF last <= 100 THEN 40 ELSE 80
      keep_doubles_of == IF last <= 10 THEN 5 ELSE IF last <= 50 THEN 5
                         ELSE IF last <= 100 THEN 10 ELSE 20
  IN Multiples(keep_every, 1, last) \cup Doubles(keep_doubles_of, last)

\* The score keys of all epochs of the history.
score_keys(ed) == UNION {DOMAIN ed[e] : e \in DOMAIN ed}

\* score_values[key]: the values of key of the stored epochs that have it.
score_values(ed, epochs, key) ==
  {ed[e][key] : e \in {x \in Range(epochs) : key \in DOMAIN ed[x]}}

FloatMin(S) == CHOOSE x \in S : \A y \in S : ~FloatLess(y, x)
FloatMax(S) == CHOOSE x \in S : \A y \in S : ~FloatLess(x, y)

\* The order of the tuples (score, epoch).
TupleLess(a, b) == FloatLess(a[1], b[1]) \/ (a[1] = b[1] /\ a[2] < b[2])

RECURSIVE sorted_tuples(_)
sorted_tuples(S) ==
  IF S = {} THEN <<>>
  ELSE LET m == CHOOSE x \in S : \A y \in S : y = x \/ TupleLess(x, y)
       IN <<m>> \o sorted_tuples(S \ {m})

\* A variant that ranks an epoch without a value with the least value.
worst_score_values_Least(ed, epochs, key) == FloatMin(score_values(ed, epochs, key))

\* worst_score_values[key]: the maximum value of the key.
worst_score_values(ed, epochs, key) == FloatMax(score_values(ed, epochs, key))

\* A variant that keeps the last keep_best_n tuples of the sorted list.
best_epochs_Worst(ed, epochs, key, keep_best_n) ==
  LET worst == worst_score_values(ed, epochs, key)
      scores == sorted_tuples(
        {<<IF key \in DOMAIN ed[e] THEN ed[e][key] ELSE worst, e>> : e \in Range(epochs)})
  IN {v[2] : v \in Range(LastN(scores, keep_best_n))}

\* The epochs of the first keep_best_n tuples of the epochs sorted by key.
best_epochs(ed, epochs, key, keep_best_n) ==
  LET worst == worst_score_values(ed, epochs, key)
      scores == sorted_tuples(
        {<<IF key \in DOMAIN ed[e] THEN ed[e][key] ELSE worst, e>> : e \in Range(epochs)})
  IN {v[2] : v \in Range(FirstN(scores, keep_best_n))}

\* A variant that never takes the dry-run return.
dry_run_Never(cfg) == FALSE

\* self.config.bool("dry_run", False)
dry_run(cfg) == cfg.dry_run

NoReport ==
  [outcome |-> "none", epochs |-> <<>>, keep |-> {}, keep_epochs |-> {},
   remove_epochs |-> <<>>]

\* Engine.cleanup_old_models up to the deletion: how the call ends, the stored
\* epochs, the keep pattern, the epochs to keep and the epochs to remove.
cleanup_old_models(p, fs, ed, cfg) ==
  LET opts == cfg.cleanup_old_models
      epochs == sorted(existing_models(fs))
      rep == [NoReport EXCEPT !.epochs = epochs]
  IN IF ~do_save(p) THEN [NoReport EXCEPT !.outcome = "no_save"]
     ELSE IF epochs = <<>> THEN [rep EXCEPT !.outcome = "no_models"]
     ELSE IF ~(opts.keep_last_n >= 1 /\ opts.keep_best_n >= 0)
       THEN [rep EXCEPT !.outcome = "AssertionError"]
     ELSE IF (IF opts.keep_last_n > opts.keep_best_n
                THEN opts.keep_last_n ELSE opts.keep_best_n) >= Len(epochs)
       THEN [rep EXCEPT !.outcome = "too_few"]
     ELSE
       LET keep == IF opts.has_keep THEN opts.keep
                   ELSE default_keep_pattern(epochs[Len(epochs)])
           keys == score_keys(ed)
       IN IF keys = {} THEN [rep EXCEPT !.outcome = "AssertionError", !.keep = keep]
          ELSE IF \E e \in Range(epochs) : e \notin DOMAIN ed
            THEN [rep EXCEPT !.outcome = "KeyError", !.keep = keep]
          ELSE IF \E k \in keys : score_values(ed, epochs, k) = {}
            THEN [rep EXCEPT !.outcome = "ValueError", !.keep = keep]
          ELSE
            LET used == {k \in keys : FloatMin(score_values(ed, epochs, k))
                                        # FloatMax(score_values(ed, epochs, k))}
                keep_epochs ==
                  (keep \cup Range(LastN(epochs, opts.keep_last_n))
                     \cup UNION {best_epochs(ed, epochs, k, opts.keep_best_n) : k \in used})
                  \cap Range(epochs)
                r2 == [rep EXCEPT !.keep = keep, !.keep_epochs = keep_epochs]
            IN IF Cardinality(keep_epochs) = Len(epochs)
                 THEN [r2 EXCEPT !.outcome = "keep_all"]
               ELSE IF dry_run(cfg)
                 THEN [r2 EXCEPT !.outcome = "dry_run",
                                 !.remove_epochs = sorted(Range(epochs) \ keep_epochs)]
               ELSE [r2 EXCEPT !.outcome = "deleted",
                               !.remove_epochs = sorted(Range(epochs) \ keep_epochs)]

CleanupRaised(outcome) == outcome \in {"AssertionError", "KeyError", "ValueError"}

\* One call of Engine.cleanup_old_models by process p.
CleanupOldModels(p) ==
  /\ pc[p] = "cleanup_old_models"
  /\ LET rep == cleanup_old_models(p, files, epochData[p], config)
         del == IF rep.outcome = "deleted"
                  THEN delete_models(files, rep.remove_epochs)
                  ELSE [ok |-> TRUE, files |-> files]
         res == IF del.ok THEN rep ELSE [rep EXCEPT !.outcome = "AssertionError"]
     IN /\ files' = del.files
        /\ trace' = [trace EXCEPT !.report[p] = res]
        /\ pc' = [pc EXCEPT ![p] = IF CleanupRaised(res.outcome)
                                     THEN "raised" ELSE "epoch_done"]
  /\ UNCHANGED <<config, runner, data_provider, hvd, engine, epochData>>

----------------------------------------------------------------------------
(* The specification of one training epoch on every process. *)

\* What sess.run can return for a step (the values of the fetches): in Spec
\* a finite step, a step with a NaN cost, a step with a NaN error.
StepFetches ==
  {MakeFetch(One, One, One, One), MakeFetch(NaN, NaN, One, One),
   MakeFetch(One, One, NaN, One)}

NoRound == [have_more_data |-> <<>>, error |-> <<>>, result |-> <<FALSE, FALSE>>]

\* The configurations of Spec: with and without Horovod.
Configs ==
  {c \in [use_horovod : BOOLEAN,
          hvd_size : 1 .. MaxPeers,
          horovod_reduce_type : {"", "param"},
          horovod_param_sync_step : {1, 2},
          stop_on_nonfinite_train_score : BOOLEAN,
          model_filename : {TRUE},
          save_interval : {1},
          num_batches : 0 .. MaxBatches] :
     /\ ~c.use_horovod => c.hvd_size = 1 /\ c.horovod_reduce_type = ""
     /\ c.horovod_param_sync_step = IF c.horovod_reduce_type = "param" THEN 2 ELSE 1}

NewTrace ==
  [log |-> [p \in Procs |-> NewLog], round |-> NoRound, events |-> 0,
   report |-> [p \in Procs |-> NoReport],
   deleted |-> [p \in Procs |-> NoDeleted],
   runs |-> [p \in Procs |-> <<>>]]

InitWith(ConfigSet) ==
  /\ config \in ConfigSet
  /\ pc = [p \in Procs |-> "train_epoch"]
  /\ runner = [p \in Procs |-> NewRunner(TRUE)]
  /\ data_provider = [p \in Procs |-> NewDataProvider]
  /\ hvd = [p \in Procs |-> NoReq]
  /\ engine = [p \in Procs |-> NewEngine]
  /\ files = <<>>
  /\ epochData = [p \in Procs |-> <<>>]
  /\ trace = NewTrace

Init == InitWith(Configs)

Next ==
  \/ \E p \in Procs : TrainEpoch(p)
  \/ \E p \in Procs : RunStart(p)
  \/ \E p \in Procs : SetCancelFlag(p)
  \/ \E p \in Procs : ProviderThreadDies(p)
  \/ \E p \in Procs : LoopHead(p)
  \/ SignalRound
  \/ SignalRoundFails
  \/ \E p \in Procs : StepBegin(p)
  \/ SessRunReturns(StepFetches)
  \/ \E p \in Procs : SessRunOpError(p)
  \/ \E p \in Procs : KeyboardInterrupt(p)
  \/ SyncRound
  \/ SyncRoundFails
  \/ \E p \in Procs : AfterLoop(p)
  \/ \E p \in Procs : Finally(p)
  \/ \E p \in Procs : Cleanup(p)
  \/ \E p \in Procs : TrainEpochAfterRun(p)

Spec == Init /\ [][Next]_vars

\* A step of the program: any step but a fault or a request of the environment.
ProgramStep == Next /\ trace'.events = trace.events

\* The distributed runs of Spec with the scheduling of the processes: a
\* process that can take a step of its code takes one; a blocked session call
\* returns when the collective is complete.  Faults and cancel requests need
\* not happen.
InitDistributed == InitWith({c \in Configs : c.use_horovod /\ c.hvd_size > 1})

SpecFair == InitDistributed /\ [][Next]_vars /\ WF_vars(ProgramStep)

\* The specification of the metrics of one run: one process without Horovod,
\* no faults, steps with varying values and normalization factors.
MetricFetches ==
  {MakeFetch(loss, cost, IF loss = One THEN Zero ELSE One, norm) :
     loss \in {One, Float(2, 1)}, cost \in {Zero, Float(3, 1)},
     norm \in {One, Float(1, 2)}}

MetricConfigs == {c \in Configs : ~c.use_horovod /\ c.stop_on_nonfinite_train_score}

InitMetrics == InitWith(MetricConfigs)

NextMetrics ==
  \/ \E p \in Procs : TrainEpoch(p)
  \/ \E p \in Procs : RunStart(p)
  \/ \E p \in Procs : LoopHead(p)
  \/ \E p \in Procs : StepBegin(p)
  \/ SessRunReturns(MetricFetches)
  \/ \E p \in Procs : AfterLoop(p)
  \/ \E p \in Procs : Finally(p)
  \/ \E p \in Procs : Cleanup(p)
  \/ \E p \in Procs : TrainEpochAfterRun(p)

SpecMetrics == InitMetrics /\ [][NextMetrics]_vars

\* The specification of retention cleanup: every process calls
\* cleanup_old_models once, on stored checkpoints, an error history and
\* options drawn from the sets below.
CleanupOpts(Patterns) ==
  {o \in [keep_last_n : 1 .. MaxKeep, keep_best_n : 0 .. MaxKeep,
          has_keep : BOOLEAN, keep : Patterns] : ~o.has_keep => o.keep = {}}

CleanupConfig(h, opts, dry) ==
  [use_horovod |-> h, hvd_size |-> IF h THEN MaxPeers ELSE 1,
   horovod_reduce_type |-> "", horovod_param_sync_step |-> 1,
   stop_on_nonfinite_train_score |-> TRUE, model_filename |-> TRUE,
   save_interval |-> 1, num_batches |-> 0,
   cleanup_old_models |-> opts, dry_run |-> dry]

StoredFiles(S) == [f \in {get_epoch_model_filename(e) : e \in S} |-> 1]

\* The error dicts an epoch can have after train_epoch and eval_model.
ErrorDicts ==
  {("train_score" :> One),
   ("train_score" :> Float(2, 1)) @@ ("dev_score" :> One),
   ("train_score" :> One) @@ ("dev_score" :> Float(2, 1))}

InitCleanupWith(cfg, fs, history) ==
  /\ config = cfg
  /\ pc = [p \in Procs |-> "cleanup_old_models"]
  /\ runner = [p \in Procs |-> NewRunner(TRUE)]
  /\ data_provider = [p \in Procs |-> NewDataProvider]
  /\ hvd = [p \in Procs |-> NoReq]
  /\ engine = [p \in Procs |-> NewEngine]
  /\ files = fs
  /\ epochData = [p \in Procs |-> history]
  /\ trace = NewTrace

\* Epochs 1 .. MaxStoredEpoch: any stored set, any history of any subset of
\* the epochs, the default keep pattern, keep_last_n = 1, keep_best_n >= 1.
HistoryInputs ==
  \E o \in CleanupOpts({{}}), S \in SUBSET (1 .. MaxStoredEpoch),
     H \in SUBSET (1 .. MaxStoredEpoch) :
    \E h \in [H -> ErrorDicts] :
      /\ ~o.has_keep /\ o.keep_last_n = 1 /\ o.keep_best_n >= 1
      /\ InitCleanupWith(CleanupConfig(FALSE, o, FALSE), StoredFiles(S), h)

\* Epoch numbers on both sides of the breakpoints of the default pattern.
EpochScales == {1, 5, 10, 11, 20, 25, 40, 51, 101}

ScoreShape(shape, i) ==
  IF shape = "decreasing" THEN Float(MaxStoredEpoch + 1 - i, 1)
  ELSE IF shape = "increasing" THEN Float(i, 1)
  ELSE One

\* Epochs Scale * (1 .. MaxStoredEpoch): any stored set, a history of one key
\* for all the epochs, default and explicit keep patterns, dry run; with
\* Horovod for the decreasing scores.
PatternInputs ==
  \E scale \in EpochScales, I \in SUBSET (1 .. MaxStoredEpoch),
     shape \in {"decreasing", "increasing", "constant"},
     dry \in BOOLEAN, hv \in BOOLEAN :
    \E o \in CleanupOpts({{}, {scale}}) :
      /\ o.has_keep => o.keep = {scale}
      /\ hv => (~dry /\ shape = "decreasing")
      /\ InitCleanupWith(
        CleanupConfig(hv, o, dry),
        StoredFiles({scale * i : i \in I}),
        [e \in {scale * i : i \in 1 .. MaxStoredEpoch} |->
           ("train_score" :> ScoreShape(shape, e \div scale))])

\* Epochs 1..12 stored, one strictly decreasing score key, keep_last_n = 2,
\* keep_best_n = 1.
ExampleInputs ==
  \E dry \in BOOLEAN :
    InitCleanupWith(
      CleanupConfig(FALSE,
        [keep_last_n |-> 2, keep_best_n |-> 1, has_keep |-> FALSE, keep |-> {}], dry),
      StoredFiles(1 .. 12),
      [e \in 1 .. 12 |-> ("train_score" :> Float(13 - e, 1))])

\* Epochs 1 .. MaxStoredEpoch with a decreasing score: any stored set, and
\* the crash and broken checkpoints an earlier run left for one epoch.
TaggedInputs ==
  \E S \in SUBSET (1 .. MaxStoredEpoch), e \in 1 .. MaxStoredEpoch :
    \E o \in CleanupOpts({{}}),
       T \in SUBSET {CrashName(get_epoch_model_filename(e), 1),
                     BrokenName(get_epoch_model_filename(e))} :
      /\ T # {} /\ ~o.has_keep
      /\ InitCleanupWith(
           CleanupConfig(FALSE, o, FALSE),
           [f \in T |-> 1] @@ StoredFiles(S),
           [x \in 1 .. MaxStoredEpoch |-> ("train_score" :> ScoreShape("decreasing", x))])

InitCleanup == HistoryInputs \/ PatternInputs \/ ExampleInputs \/ TaggedInputs

NextCleanup == \E p \in Procs : CleanupOldModels(p)

SpecCleanup == InitCleanup /\ [][NextCleanup]_vars

\* The specification of delete_model: one call on a disk that holds any of
\* the checkpoints below, of any size, for any of their names.
DeleteNames ==
  {get_epoch_model_filename(1), get_epoch_model_filename(100),
   get_epoch_model_filename(1000),
   CrashName(get_epoch_model_filename(100), 1),
   BrokenName(get_epoch_model_filename(100))}

InitDelete ==
  \E N \in SUBSET DeleteNames :
    \E fs \in [N -> 0 .. MaxFileBytes] :
      /\ config = CleanupConfig(FALSE,
           [keep_last_n |-> 1, keep_best_n |-> 0, has_keep |-> FALSE, keep |-> {}], FALSE)
      /\ pc = [p \in Procs |-> "delete_model"]
      /\ runner = [p \in Procs |-> NewRunner(TRUE)]
      /\ data_provider = [p \in Procs |-> NewDataProvider]
      /\ hvd = [p \in Procs |-> NoReq]
      /\ engine = [p \in Procs |-> NewEngine]
      /\ files = fs
      /\ epochData = [p \in Procs |-> <<>>]
      /\ trace = NewTrace

NextDelete == \E p \in Procs, filename \in DeleteNames : DeleteModel(p, filename)

SpecDelete == InitDelete /\ [][NextDelete]_vars

\* The specification of Engine.train: one process without Horovod trains the
\* epochs 1 .. final_epoch, every run on one batch, with or without dev and
\* eval data, with or without cleanup_old_models.
TrainFetches == {MakeFetch(One, One, One, One), MakeFetch(NaN, NaN, One, One)}

TrainConfigs ==
  {[use_horovod |-> FALSE, hvd_size |-> 1,
    horovod_reduce_type |-> "", horovod_param_sync_step |-> 1,
    stop_on_nonfinite_train_score |-> stop, model_filename |-> TRUE,
    save_interval |-> 1, num_batches |-> 1,
    pretrain |-> 1, use_learning_rate_control_always |-> FALSE,
    initial_learning_rate |-> One, pretrain_learning_rate |-> Float(1, 2),
    start_epoch |-> 1, final_epoch |-> 2,
    dev_data |-> d[1], eval_data |-> d[2],
    has_cleanup_old_models |-> cl,
    cleanup_old_models |->
      [keep_last_n |-> 1, keep_best_n |-> 0, has_keep |-> TRUE, keep |-> {}],
    use_last_best_model |-> NoLastBestModel,
    pretrain_net_desc |-> DefaultNetDesc, copy_output_layer |-> TRUE,
    dry_run |-> FALSE] :
     stop \in BOOLEAN, cl \in BOOLEAN,
     d \in {<<FALSE, FALSE>>, <<TRUE, FALSE>>, <<TRUE, TRUE>>}}

InitTrain ==
  /\ config \in TrainConfigs
  /\ pc = [p \in Procs |-> "train"]
  /\ runner = [p \in Procs |-> NewRunner(TRUE)]
  /\ data_provider = [p \in Procs |-> NewDataProvider]
  /\ hvd = [p \in Procs |-> NoReq]
  /\ engine = [p \in Procs |-> NewEngine]
  /\ files = <<>>
  /\ epochData = [p \in Procs |-> <<>>]
  /\ trace = NewTrace

NextTrain ==
  \/ \E p \in Procs : Train(p)
  \/ \E p \in Procs : InitTrainEpoch(p)
  \/ \E p \in Procs : TrainEpoch(p)
  \/ \E p \in Procs : RunStart(p)
  \/ \E p \in Procs : SetCancelFlag(p)
  \/ \E p \in Procs : ProviderThreadDies(p)
  \/ \E p \in Procs : LoopHead(p)
  \/ \E p \in Procs : StepBegin(p)
  \/ SessRunReturns(TrainFetches)
  \/ \E p \in Procs : SessRunOpError(p)
  \/ \E p \in Procs : KeyboardInterrupt(p)
  \/ \E p \in Procs : AfterLoop(p)
  \/ \E p \in Procs : Finally(p)
  \/ \E p \in Procs : Cleanup(p)
  \/ \E p \in Procs : TrainEpochAfterRun(p)
  \/ \E p \in Procs : EvalModel(p)
  \/ \E p \in Procs : EvalDataset(p)
  \/ \E p \in Procs : EvalModelAfterRun(p)
  \/ \E p \in Procs : CleanupOldModels(p)
  \/ \E p \in Procs : TrainEpochDone(p)

SpecTrain == InitTrain /\ [][NextTrain]_vars

\* The specification of the fetches of one run: a training or evaluating
\* Runner, with or without Horovod, with or without a constant zero loss.
InitFetches ==
  \E h \in BOOLEAN, zero \in BOOLEAN, train \in BOOLEAN :
    /\ config = [use_horovod |-> h, hvd_size |-> 1, objective_is_zero |-> zero]
    /\ pc = [p \in Procs |-> "get_fetches"]
    /\ runner = [p \in Procs |-> [should_train |-> train, step |-> 0, fetches_dict |-> NoDict]]
    /\ data_provider = [p \in Procs |-> NewDataProvider]
    /\ hvd = [p \in Procs |-> NoReq]
    /\ engine = [p \in Procs |-> [graph |-> NewGraph]]
    /\ files = <<>>
    /\ epochData = [p \in Procs |-> <<>>]
    /\ trace = [events |-> 0,
                built |-> [p \in Procs |-> <<>>],   \* the dicts the builder returned
                nodes |-> [p \in Procs |-> <<>>],   \* num_nodes after each call of it
                used |-> [p \in Procs |-> <<>>]]    \* the dict of every step

NextFetches ==
  \/ \E p \in Procs : RunGetsFetches(p)
  \/ \E p \in Procs : StepRunsFetches(p)
  \/ \E p \in Procs : GetFetchesDict(p)

SpecFetches == InitFetches /\ [][NextFetches]_vars

\* The specification of the normalization at _finalize: a Runner at the end
\* of its loop, with any accumulated values of the keys below and any
\* accumulated normalization factors.
NormalizeKeys == {LossKey, <<"cost", "output">>, <<"error", "output">>}

NormalizeValues == {Zero, Float(3, 1), NaN}

NormalizeFactors ==
  {EmptyDict, (<<"output">> :> Float(2, 1)), (<<"other">> :> Float(2, 1)),
   (<<"output">> :> One) @@ (<<"other">> :> Float(2, 1))}

InitNormalize ==
  \E K \in SUBSET NormalizeKeys, inv \in NormalizeFactors :
    \E acc \in [K -> NormalizeValues] :
      /\ config \in {c \in Configs : ~c.use_horovod /\ c.num_batches = 0
                                       /\ c.stop_on_nonfinite_train_score}
      /\ pc = [p \in Procs |-> "after_loop"]
      /\ runner = [p \in Procs |->
           [NewRunner(TRUE) EXCEPT !.step = 0, !.results_accumulated = acc,
                                   !.inv_norm_accumulated = inv]]
      /\ data_provider = [p \in Procs |-> NewDataProvider]
      /\ hvd = [p \in Procs |-> NoReq]
      /\ engine = [p \in Procs |-> NewEngine]
      /\ files = <<>>
      /\ epochData = [p \in Procs |-> <<>>]
      /\ trace = NewTrace

NextNormalize == \E p \in Procs : AfterLoop(p)

SpecNormalize == InitNormalize /\ [][NextNormalize]_vars

\* The specification of the epoch loop of Engine.train: one process trains
\* from any start epoch to any final epoch (0 is no final epoch) with any
\* save interval, with or without a model filename; a session call may fail.
EpochLoopConfigs ==
  {[c EXCEPT !.start_epoch = se, !.final_epoch = fe, !.save_interval = si,
             !.model_filename = mf] :
     se \in 1 .. MaxEpoch, fe \in 0 .. MaxEpoch, si \in 1 .. MaxEpoch,
     mf \in BOOLEAN,
     c \in {d \in TrainConfigs : ~d.dev_data /\ ~d.has_cleanup_old_models
                                    /\ d.stop_on_nonfinite_train_score}}

InitEpochLoop ==
  /\ config \in EpochLoopConfigs
  /\ pc = [p \in Procs |-> "train"]
  /\ runner = [p \in Procs |-> NewRunner(TRUE)]
  /\ data_provider = [p \in Procs |-> NewDataProvider]
  /\ hvd = [p \in Procs |-> NoReq]
  /\ engine = [p \in Procs |-> [NewEngine EXCEPT !.epoch = config.start_epoch]]
  /\ files = <<>>
  /\ epochData = [p \in Procs |-> <<>>]
  /\ trace = NewTrace

NextEpochLoop ==
  \/ \E p \in Procs : Train(p)
  \/ \E p \in Procs : InitTrainEpoch(p)
  \/ \E p \in Procs : TrainEpoch(p)
  \/ \E p \in Procs : RunStart(p)
  \/ \E p \in Procs : LoopHead(p)
  \/ \E p \in Procs : StepBegin(p)
  \/ SessRunReturns(TrainFetches)
  \/ \E p \in Procs : SessRunOpError(p)
  \/ \E p \in Procs : AfterLoop(p)
  \/ \E p \in Procs : Finally(p)
  \/ \E p \in Procs : Cleanup(p)
  \/ \E p \in Procs : TrainEpochAfterRun(p)
  \/ \E p \in Procs : EvalModel(p)
  \/ \E p \in Procs : EvalDataset(p)
  \/ \E p \in Procs : TrainEpochDone(p)

SpecEpochLoop == InitEpochLoop /\ [][NextEpochLoop]_vars

\* The specification of a distributed Engine.train: MaxPeers processes train
\* one epoch on one batch each, run on the dev data, clean up old models and
\* save the last model; a session call may fail, a score may be NaN.
DistributedTrainConfigs ==
  {[c EXCEPT !.use_horovod = TRUE, !.hvd_size = MaxPeers,
             !.horovod_reduce_type = "param", !.horovod_param_sync_step = 2,
             !.num_batches = MaxPeers, !.final_epoch = 1] :
     c \in {d \in TrainConfigs : d.dev_data /\ ~d.eval_data /\ d.has_cleanup_old_models}}

InitDistributedTrain ==
  /\ config \in DistributedTrainConfigs
  /\ pc = [p \in Procs |-> "train"]
  /\ runner = [p \in Procs |-> NewRunner(TRUE)]
  /\ data_provider = [p \in Procs |-> NewDataProvider]
  /\ hvd = [p \in Procs |-> NoReq]
  /\ engine = [p \in Procs |-> NewEngine]
  /\ files = <<>>
  /\ epochData = [p \in Procs |-> <<>>]
  /\ trace = NewTrace

NextDistributedTrain ==
  \/ \E p \in Procs : Train(p)
  \/ \E p \in Procs : InitTrainEpoch(p)
  \/ \E p \in Procs : TrainEpoch(p)
  \/ \E p \in Procs : RunStart(p)
  \/ \E p \in Procs : LoopHead(p)
  \/ SignalRound
  \/ \E p \in Procs : StepBegin(p)
  \/ SessRunReturns(TrainFetches)
  \/ \E p \in Procs : SessRunOpError(p)
  \/ SyncRound
  \/ \E p \in Procs : AfterLoop(p)
  \/ \E p \in Procs : Finally(p)
  \/ \E p \in Procs : Cleanup(p)
  \/ \E p \in Procs : TrainEpochAfterRun(p)
  \/ \E p \in Procs : EvalModel(p)
  \/ \E p \in Procs : EvalDataset(p)
  \/ \E p \in Procs : EvalModelAfterRun(p)
  \/ \E p \in Procs : CleanupOldModels(p)
  \/ \E p \in Procs : TrainEpochDone(p)

SpecDistributedTrain == InitDistributedTrain /\ [][NextDistributedTrain]_vars

\* The specification of init_train_epoch: one call in any epoch, with any
\* number of pretrain epochs, any rates of the controller.
LearningRateConfig(pre, always, pre_rate) ==
  [use_horovod |-> FALSE, hvd_size |-> 1,
   horovod_reduce_type |-> "", horovod_param_sync_step |-> 1,
   stop_on_nonfinite_train_score |-> TRUE, model_filename |-> TRUE,
   save_interval |-> 1, num_batches |-> 0,
   pretrain |-> pre, use_learning_rate_control_always |-> always,
   initial_learning_rate |-> One, pretrain_learning_rate |-> pre_rate,
   use_last_best_model |-> NoLastBestModel,
   pretrain_net_desc |-> DefaultNetDesc, copy_output_layer |-> TRUE]

ControlRates == {Float(1, 4), Float(1, 8)}

InitLearningRate ==
  \E pre \in 0 .. MaxStoredEpoch, always \in BOOLEAN, pre_rate \in {One, Float(1, 2)} :
    \E epoch \in 1 .. MaxStoredEpoch, rate \in ControlRates :
      /\ config = LearningRateConfig(pre, always, pre_rate)
      /\ pc = [p \in Procs |-> "init_train_epoch"]
      /\ runner = [p \in Procs |-> NewRunner(TRUE)]
      /\ data_provider = [p \in Procs |-> NewDataProvider]
      /\ hvd = [p \in Procs |-> NoReq]
      /\ engine = [p \in Procs |->
           [NewEngine EXCEPT !.epoch = epoch,
              !.learning_rates = [e \in 1 .. MaxStoredEpoch |->
                                    IF e = epoch THEN rate ELSE Float(1, 4)]]]
      /\ files = <<>>
      /\ epochData = [p \in Procs |-> <<>>]
      /\ trace = NewTrace

NextLearningRate == \E p \in Procs : InitTrainEpoch(p)

SpecLearningRate == InitLearningRate /\ [][NextLearningRate]_vars

\* The specification of _maybe_use_better_last_model: one call of
\* init_train_epoch in any epoch, with any setting of use_last_best_model, any
\* error value of the previous epoch and any answer of getLastBestEpoch.
LastBestModelOpts ==
  {[is_true |-> on, modulo |-> m, filter_score |-> f] :
     on \in BOOLEAN, m \in {1, 2}, f \in {Inf, Float(2, 1)}}

LastEpochErrors == {None, One, Float(3, 1), NaN}

InitBestModel ==
  \E pre \in 0 .. MaxStoredEpoch, opts \in LastBestModelOpts :
    \E epoch \in 1 .. MaxStoredEpoch, error \in LastEpochErrors :
      \E best \in 0 .. (epoch - 1) :
        /\ config = [LearningRateConfig(pre, FALSE, One) EXCEPT !.use_last_best_model = opts]
        /\ pc = [p \in Procs |-> "init_train_epoch"]
        /\ runner = [p \in Procs |-> NewRunner(TRUE)]
        /\ data_provider = [p \in Procs |-> NewDataProvider]
        /\ hvd = [p \in Procs |-> NoReq]
        /\ engine = [p \in Procs |->
             [NewEngine EXCEPT !.epoch = epoch, !.last_epoch_error = error,
                               !.last_best_epoch = best]]
        /\ files = <<>>
        /\ epochData = [p \in Procs |-> <<>>]
        /\ trace = NewTrace

NextBestModel == \E p \in Procs : InitTrainEpoch(p)

SpecBestModel == InitBestModel /\ [][NextBestModel]_vars

\* The specification of maybe_init_new_network: one call of init_train_epoch
\* in any epoch, with any network so far and any network description
\* requested for the epoch.
InitNewNetwork ==
  \E pre \in 0 .. MaxStoredEpoch, copy \in BOOLEAN, requested \in NetDescs :
    \E epoch \in 1 .. MaxStoredEpoch, current \in NetDescs :
      /\ config = [LearningRateConfig(pre, FALSE, One) EXCEPT
                     !.pretrain_net_desc = requested, !.copy_output_layer = copy]
      /\ pc = [p \in Procs |-> "init_train_epoch"]
      /\ runner = [p \in Procs |-> NewRunner(TRUE)]
      /\ data_provider = [p \in Procs |-> NewDataProvider]
      /\ hvd = [p \in Procs |-> NoReq]
      /\ engine = [p \in Procs |->
           [NewEngine EXCEPT !.epoch = epoch,
                             !.network = NewNetwork(current, "trained", 1)]]
      /\ files = <<>>
      /\ epochData = [p \in Procs |-> <<>>]
      /\ trace = NewTrace

NextNewNetwork == \E p \in Procs : InitTrainEpoch(p)

SpecNewNetwork == InitNewNetwork /\ [][NextNewNetwork]_vars

\* The specification of _maybe_update_config: networks are built one after
\* the other, each description with any "#config", for any values of the
\* config file; the batches are cached in between.
InitUpdateConfig ==
  \E typed_dict \in [ConfigKeys -> {0, 1}] :
    /\ config = LearningRateConfig(0, TRUE, One) @@ [typed_dict |-> typed_dict]
    /\ pc = [p \in Procs |-> "init_network"]
    /\ runner = [p \in Procs |-> NewRunner(TRUE)]
    /\ data_provider = [p \in Procs |-> NewDataProvider]
    /\ hvd = [p \in Procs |-> NoReq]
    /\ engine = [p \in Procs |->
         NewEngine @@
           [typed_dict |-> typed_dict,
            orig_config |-> EmptyDict,
            dataset_batches |-> {},
            attribs |-> [k \in ConfigKeys \cap BatchingKeys |->
                           AttribValue(k, typed_dict[k])],
            net_config |-> NoNetConfig,
            prev_overridden |-> {}]]   \* the keys the description before overrode
    /\ files = <<>>
    /\ epochData = [p \in Procs |-> <<>>]
    /\ trace = NewTrace

NextUpdateConfig ==
  \/ \E p \in Procs : InitNetwork(p)
  \/ \E p \in Procs : CacheBatches(p)

SpecUpdateConfig == InitUpdateConfig /\ [][NextUpdateConfig]_vars

----------------------------------------------------------------------------
(* Claims about Runner and Engine.train_epoch. *)

RECURSIVE RawSum(_, _)
\* The sum over the logged steps of the raw fetched value of key k.
RawSum(fetched, k) ==
  IF fetched = <<>> THEN Zero
  ELSE FloatAdd(RawSum(Tail(fetched), k), Head(fetched)[k])

RECURSIVE InvNormSum(_, _)
\* The sum over the logged steps of 1 / loss_norm_factor:<name>.
InvNormSum(fetched, name) ==
  IF fetched = <<>> THEN Zero
  ELSE FloatAdd(InvNormSum(Tail(fetched), name),
                FloatDiv(One, Head(fetched)[<<"loss_norm_factor">> \o name]))

MetricKeys == {k \in FetchKeys : k = LossKey \/ k[1] \in {"cost", "error"}}

\* C1: the accumulators always hold the raw sums (nothing is divided per
\* step); in a finalized run every cost:<name> and error:<name> result is the
\* sum of the raw fetched values divided by the sum of 1/loss_norm_factor:<name>,
\* the loss result is the plain sum of the raw loss values, and score and
\* error are the cost and the error results.
C1_FinalizeDividesRawSums ==
  \A p \in Procs :
    LET r == runner[p]
        fetched == trace.log[p].fetched
    IN /\ \A k \in DOMAIN r.results_accumulated :
            r.results_accumulated[k] = RawSum(fetched, k)
       /\ \A n \in DOMAIN r.inv_norm_accumulated :
            r.inv_norm_accumulated[n] = InvNormSum(fetched, n)
       /\ r.finalized =>
            /\ DOMAIN r.results = (IF fetched = <<>> THEN {} ELSE MetricKeys)
            /\ \A k \in DOMAIN r.results :
                 r.results[k] =
                   IF k = LossKey THEN RawSum(fetched, k)
                   ELSE FloatDiv(RawSum(fetched, k), InvNormSum(fetched, Tail(k)))
            /\ r.score = [k \in {x \in DOMAIN r.results : x[1] = "cost"} |-> r.results[k]]
            /\ r.error = [k \in {x \in DOMAIN r.results : x[1] = "error"} |-> r.results[k]]

\* A finalized run of two steps with different normalization factors and
\* different costs.
C1_Witness ==
  \E p \in Procs :
    LET fetched == trace.log[p].fetched IN
    /\ runner[p].finalized
    /\ Len(fetched) >= 2
    /\ fetched[1][<<"loss_norm_factor", "output">>] # fetched[2][<<"loss_norm_factor", "output">>]
    /\ fetched[1][<<"cost", "output">>] # fetched[2][<<"cost", "output">>]
    /\ runner[p].results[LossKey] # Zero

Canonical(p) == get_epoch_model_filename(engine[p].epoch)
StepsDone(p) == Len(trace.log[p].fetched)

\* C2 as stated: a process whose step execution failed at step k ends not
\* finalized with device_crash_batch = k, without another feed taken, with
\* the checkpoint .crash_k on disk, exit code 1, no canonical checkpoint.
C2_CrashCheckpointSaved ==
  \A p \in Procs :
    (trace.log[p].op_error /\ pc[p] = "exited") =>
      /\ ~runner[p].finalized
      /\ runner[p].device_crash_batch = StepsDone(p)
      /\ Len(trace.log[p].batches) = StepsDone(p) + 1
      /\ CrashName(Canonical(p), StepsDone(p)) \in DOMAIN files
      /\ engine[p].exit_code = 1
      /\ Canonical(p) \notin DOMAIN files

\* C2 amended: the same, the checkpoint .crash_k being on disk when the
\* process is one that saves (no Horovod, or rank 0 of a Horovod run).
C2_CrashCheckpointSavedByRank0 ==
  \A p \in Procs :
    /\ (trace.log[p].op_error /\ pc[p] \notin {"sess_run", "finally"}) =>
         /\ ~runner[p].finalized
         /\ runner[p].device_crash_batch = StepsDone(p)
         /\ Len(trace.log[p].batches) = StepsDone(p) + 1
         /\ pc[p] \in {"signal_error", "cleanup", "returned", "exited"}
    /\ (trace.log[p].op_error /\ pc[p] = "exited") =>
         /\ do_save(p) => CrashName(Canonical(p), StepsDone(p)) \in DOMAIN files
         /\ engine[p].exit_code = 1
         /\ Canonical(p) \notin DOMAIN files

\* A process that saves, crashed at step 1, has exited.
C2_Witness ==
  \E p \in Procs :
    /\ trace.log[p].op_error /\ pc[p] = "exited" /\ do_save(p)
    /\ StepsDone(p) = 1
    /\ CrashName(Canonical(p), 1) \in DOMAIN files

\* C3: a run stopped by the cancel flag records no crash step, and no
\* .crash_<step> checkpoint is written for it.
C3_CancelIsNoCrash ==
  \A p \in Procs :
    runner[p].run_exception = "CancelTrainingException" =>
      /\ runner[p].device_crash_batch = -1
      /\ \A f \in DOMAIN files : Len(f.tag) = 0 \/ f.tag[1] # "crash"

AnyNaN(d) == \E k \in DOMAIN d : isnan(d[k])
AnyNonFinite(d) == \E k \in DOMAIN d : d[k] \in {NaN, Inf}

AfterTrain(p) == pc[p] \in {"exited", "eval_model"}

\* C4 as stated: after a finalized training run with a NaN error metric the
\* engine has saved .broken and exited when stop_on_nonfinite_train_score is
\* set, and has gone on to the evaluation when it is not.
C4_NaNErrorIsBroken ==
  \A p \in Procs :
    (AfterTrain(p) /\ runner[p].finalized /\ AnyNaN(runner[p].error)) =>
      IF config.stop_on_nonfinite_train_score
        THEN /\ pc[p] = "exited" /\ engine[p].exit_code = 1
             /\ BrokenName(Canonical(p)) \in DOMAIN files
        ELSE pc[p] = "eval_model"

\* C4 amended: it is a NaN (or infinite) score, a cost:* result, that takes
\* the broken path; with the option set the engine exits with code 1 and the
\* .broken checkpoint is on disk when the process is one that saves; with the
\* option unset, and whenever the score is finite, the engine goes on: the
\* epoch's errors are recorded, the canonical checkpoint is saved when the
\* save interval selects the epoch, and evaluation is entered.
C4_NonFiniteScoreIsBroken ==
  \A p \in Procs :
    (AfterTrain(p) /\ runner[p].finalized) =>
      IF AnyNonFinite(runner[p].score) /\ config.stop_on_nonfinite_train_score
        THEN /\ pc[p] = "exited" /\ engine[p].exit_code = 1
             /\ do_save(p) => BrokenName(Canonical(p)) \in DOMAIN files
             /\ engine[p].epoch \notin DOMAIN epochData[p]
        ELSE /\ pc[p] = "eval_model" /\ engine[p].exit_code = -1
             /\ engine[p].epoch \in DOMAIN epochData[p]
             /\ (do_save(p) /\ config.model_filename
                   /\ engine[p].epoch % config.save_interval = 0)
                  => Canonical(p) \in DOMAIN files
             /\ do_save(p) => BrokenName(Canonical(p)) \notin DOMAIN files

\* A NaN score with the option set: broken checkpoint on disk, exited.
C4_Witness ==
  \E p \in Procs :
    /\ pc[p] = "exited" /\ runner[p].finalized
    /\ AnyNaN(runner[p].score)
    /\ BrokenName(Canonical(p)) \in DOMAIN files

\* The last completed handshake round had exactly one have_more_data = False
\* vote and no error vote.
OneFalseRound ==
  /\ DOMAIN trace.round.have_more_data = Procs
  /\ Cardinality({p \in Procs : trace.round.have_more_data[p] = 0}) = 1
  /\ \A p \in Procs : trace.round.error[p] = 0

\* C5: after a round in which one peer voted have_more_data = False, the
\* others True and none error, every peer obtained (stop, error) = (True,
\* False), is stopped, and every signal call it makes afterwards, or would
\* make, returns (True, False) without a round.
C5_OneFalseVoteStopsAll ==
  OneFalseRound =>
    /\ trace.round.result = <<TRUE, FALSE>>
    /\ \A p \in Procs :
         /\ runner[p].horovod_stopped_runner
         /\ trace.log[p].last_signal = <<TRUE, FALSE>>
         /\ hvd[p].op # "signal"
         /\ signal_returns_at_once(p)
         /\ signal_result_at_once(p) = <<TRUE, FALSE>>

\* Two or more peers, such a round, and a peer that made a later signal call.
C5_Witness ==
  /\ OneFalseRound
  /\ config.hvd_size >= 2
  /\ \E p \in Procs : trace.round.have_more_data[p] = 1
  /\ \E p \in Procs : trace.log[p].signal_calls > trace.log[p].signal_rounds

\* C6: once the stopped flag of a Runner is set it stays set, and from then
\* on a signal call of the Runner issues no allreduce round and returns
\* (stop, error) = (True, False).
C6_StoppedIssuesNoRound ==
  [][\A p \in Procs :
       runner[p].horovod_stopped_runner =>
         /\ runner'[p].horovod_stopped_runner
         /\ hvd'[p].op # "signal"
         /\ trace'.log[p].signal_rounds = trace.log[p].signal_rounds
         /\ trace'.log[p].signal_calls # trace.log[p].signal_calls
              => trace'.log[p].last_signal = <<TRUE, FALSE>>]_vars

\* A stopped peer has made a signal call that issued no round.
C6_Witness ==
  \E p \in Procs :
    /\ runner[p].horovod_stopped_runner
    /\ trace.log[p].signal_calls > trace.log[p].signal_rounds

\* C7: a run is finalized only if its data stream was consumed to the end or
\* a peer stopped it without error, and a finalized run has no recorded
\* exception.
C7_FinalizedMeansNoException ==
  \A p \in Procs :
    runner[p].finalized =>
      /\ runner[p].hvd_stop \/ have_reached_end(p)
      /\ ~runner[p].hvd_error
      /\ runner[p].run_exception = "None"
      /\ runner[p].device_crash_batch = -1

RunReturned(p) == pc[p] \in {"returned", "exited", "eval_model"}

----------------------------------------------------------------------------
(* Claims about Engine.cleanup_old_models. *)

CleanupReturned(p) ==
  /\ pc[p] = "epoch_done"
  /\ trace.report[p].outcome \in {"no_models", "too_few", "keep_all", "dry_run", "deleted"}

StoredBefore(p) == Range(trace.report[p].epochs)

\* Every stored epoch has a history entry and every score key has a value at
\* some stored epoch: the ranking of the stored epochs by the keys is defined.
RankingDefined(p) ==
  /\ StoredBefore(p) \subseteq DOMAIN epochData[p]
  /\ \A k \in score_keys(epochData[p]) :
       \E e \in StoredBefore(p) : k \in DOMAIN epochData[p][e]

\* The breakpoint table of the periodic pattern.
TableKeepEvery(M) == IF M <= 10 THEN 4 ELSE IF M <= 50 THEN 20 ELSE IF M <= 100 THEN 40 ELSE 80
TableKeepDoublesOf(M) == IF M <= 10 THEN 5 ELSE IF M <= 50 THEN 5 ELSE IF M <= 100 THEN 10 ELSE 20

\* {keep_every * i : i >= 1} and {keep_doubles_of * 2^i : i >= 0} up to M.
PeriodicPattern(M) ==
  {n \in 1 .. M : n % TableKeepEvery(M) = 0}
    \cup {n \in 1 .. M :
            /\ n % TableKeepDoublesOf(M) = 0
            /\ LET q == n \div TableKeepDoublesOf(M)
               IN \A d \in 2 .. q : q % d = 0 => d % 2 = 0}

MaxOf(S) == CHOOSE x \in S : \A y \in S : y <= x

KeepPatternOf(p) ==
  IF config.cleanup_old_models.has_keep THEN config.cleanup_old_models.keep
  ELSE IF StoredBefore(p) = {} THEN {}
  ELSE PeriodicPattern(MaxOf(StoredBefore(p)))

\* The value epoch e is ranked with by key k: its own, or the maximum value
\* of the key among the stored epochs.
RankValue(p, k, e) ==
  IF k \in DOMAIN epochData[p][e] THEN epochData[p][e][k]
  ELSE FloatMax({epochData[p][x][k] :
                   x \in {y \in StoredBefore(p) : k \in DOMAIN epochData[p][y]}})

Discriminating(p, k) ==
  \E a, b \in StoredBefore(p) :
    /\ k \in DOMAIN epochData[p][a] /\ k \in DOMAIN epochData[p][b]
    /\ epochData[p][a][k] # epochData[p][b][k]

\* The n best stored epochs by key k: those with fewer than n epochs before
\* them in the ascending order of (value, epoch).
BestOf(p, k, n) ==
  {e \in StoredBefore(p) :
     Cardinality({x \in StoredBefore(p) :
        \/ FloatLess(RankValue(p, k, x), RankValue(p, k, e))
        \/ RankValue(p, k, x) = RankValue(p, k, e) /\ x < e}) < n}

LastOf(p, n) ==
  {e \in StoredBefore(p) : Cardinality({x \in StoredBefore(p) : x > e}) < n}

\* keep-set = (pattern \cup last keep_last_n \cup best keep_best_n per
\* discriminating key) \cap stored epochs.
KeepSet(p) ==
  (KeepPatternOf(p)
     \cup LastOf(p, config.cleanup_old_models.keep_last_n)
     \cup UNION {BestOf(p, k, config.cleanup_old_models.keep_best_n) :
                   k \in {x \in score_keys(epochData[p]) : Discriminating(p, x)}})
  \cap StoredBefore(p)

\* The stored epochs 1..12 with a strictly decreasing score, keep_last_n = 2,
\* keep_best_n = 1 and the default pattern.
IsExample(p) ==
  /\ trace.report[p].epochs = [i \in 1 .. 12 |-> i]
  /\ epochData[p] = [e \in 1 .. 12 |-> ("train_score" :> Float(13 - e, 1))]
  /\ config.cleanup_old_models =
       [keep_last_n |-> 2, keep_best_n |-> 1, has_keep |-> FALSE, keep |-> {}]

FewStored(p) ==
  LET o == config.cleanup_old_models
  IN (IF o.keep_last_n > o.keep_best_n THEN o.keep_last_n ELSE o.keep_best_n)
       >= Cardinality(StoredBefore(p))

C10_DefaultKeepPattern ==
  \A p \in Procs :
    trace.report[p].outcome \in {"keep_all", "dry_run", "deleted"} =>
      /\ trace.report[p].keep = KeepPatternOf(p)
      /\ ~config.cleanup_old_models.has_keep =>
           trace.report[p].keep =
             PeriodicPattern(trace.report[p].epochs[Len(trace.report[p].epochs)])
      /\ (KeepPatternOf(p) \cap StoredBefore(p)) \subseteq existing_models(files)

\* A cleanup with the default pattern and a last epoch above 100 deleted an
\* epoch and kept two epochs of the pattern.
C10_Witness ==
  \E p \in Procs :
    /\ trace.report[p].outcome = "deleted"
    /\ ~config.cleanup_old_models.has_keep
    /\ trace.report[p].epochs[Len(trace.report[p].epochs)] > 100
    /\ Cardinality(trace.report[p].keep \cap existing_models(files)) >= 2

KeptByPatternOrLast(p) ==
  KeepPatternOf(p) \cup LastOf(p, config.cleanup_old_models.keep_last_n)

KeepSetComputed(p) == trace.report[p].outcome \in {"keep_all", "dry_run", "deleted"}

\* C11: the best keep_best_n stored epochs of every discriminating score key,
\* an epoch without a value ranked with the key's maximum, are all kept; a
\* key with one value only keeps nothing: an epoch outside the pattern and
\* the last epochs is kept only as one of the best of a discriminating key.
C11_BestPerKeyUnited ==
  \A p \in Procs :
    KeepSetComputed(p) =>
      /\ \A k \in score_keys(epochData[p]) :
           Discriminating(p, k) =>
             BestOf(p, k, config.cleanup_old_models.keep_best_n)
               \subseteq trace.report[p].keep_epochs
      /\ \A e \in trace.report[p].keep_epochs \ KeptByPatternOrLast(p) :
           \E k \in score_keys(epochData[p]) :
             /\ Discriminating(p, k)
             /\ e \in BestOf(p, k, config.cleanup_old_models.keep_best_n)

\* Two keys that disagree keep more than keep_best_n epochs as best ones,
\* a stored epoch has no value for one of the keys, and an epoch is removed.
C11_Witness ==
  \E p \in Procs :
    /\ trace.report[p].outcome = "deleted"
    /\ Cardinality(trace.report[p].keep_epochs \ KeptByPatternOrLast(p))
         > config.cleanup_old_models.keep_best_n
    /\ \E e \in StoredBefore(p) : "dev_score" \notin DOMAIN epochData[p][e]
    /\ Discriminating(p, "dev_score")

----------------------------------------------------------------------------
(* Claims about Engine.delete_model. *)

\* The checkpoints a call of delete_model removed.
RemovedBy(p) == DOMAIN trace.deleted[p].before \ DOMAIN files

RECURSIVE BytesOf(_, _)
BytesOf(fs, N) ==
  IF N = {} THEN 0
  ELSE LET f == CHOOSE x \in N : TRUE IN fs[f] + BytesOf(fs, N \ {f})

\* C12: a call of delete_model for a checkpoint that is absent, or whose
\* files have no bytes, fails with an assertion; any other call returns the
\* sum of the sizes of the files it removed, which is positive.
C12_DeleteNeverReturnsZero ==
  \A p \in Procs :
    trace.deleted[p].called =>
      LET d == trace.deleted[p]
      IN IF d.filename \notin DOMAIN d.before THEN pc[p] = "raised" /\ ~d.ok
         ELSE IF BytesOf(d.before, RemovedBy(p)) = 0 THEN pc[p] = "raised" /\ ~d.ok
         ELSE /\ pc[p] = "epoch_done" /\ d.ok
              /\ d.count_bytes = BytesOf(d.before, RemovedBy(p))
              /\ d.count_bytes > 0
              /\ d.filename \in RemovedBy(p)

\* A call that removed files of more than one byte in all.
C12_Witness ==
  \E p \in Procs :
    /\ trace.deleted[p].called /\ trace.deleted[p].ok
    /\ trace.deleted[p].count_bytes > 1
    /\ pc[p] = "epoch_done"

----------------------------------------------------------------------------
(* More claims about Engine.cleanup_old_models. *)

\* C13: in dry-run mode a call of cleanup_old_models changes no file on
\* disk, and ends either without epochs to remove or with the report of
\* the epochs it would remove.
C13_DryRunDeletesNothing ==
  [][config.dry_run =>
       /\ files' = files
       /\ \A p \in Procs :
            /\ trace'.report[p].outcome # "deleted"
            /\ trace'.report[p].outcome = "dry_run"
                 => /\ trace'.report[p].remove_epochs # <<>>
                    /\ Range(trace'.report[p].remove_epochs)
                         = Range(trace'.report[p].epochs) \ trace'.report[p].keep_epochs]_vars

\* A dry run reported epochs to remove, which are still stored.
C13_Witness ==
  \E p \in Procs :
    /\ config.dry_run
    /\ trace.report[p].outcome = "dry_run"
    /\ trace.report[p].remove_epochs # <<>>
    /\ Range(trace.report[p].remove_epochs) \subseteq existing_models(files)

\* C14: a call of cleanup_old_models leaves every .crash_<step> and .broken
\* checkpoint on disk, whichever epochs it removes.
C14_TaggedFilesSurviveCleanup ==
  [][\A f \in DOMAIN files : f.tag # <<>> => f \in DOMAIN files']_vars

----------------------------------------------------------------------------
(* More claims about Runner.run and Engine.train_epoch. *)

IsCrashFile(f) == f.tag # <<>> /\ f.tag[1] = "crash"

\* C15: a run ended by a keyboard interrupt has the exception recorded and no
\* crash step; when it has returned, every cleanup action was attempted;
\* the engine then exits with code 1, and when no process has another
\* exception no .crash_<step> checkpoint is on disk.
C15_KeyboardInterruptIsNoCrash ==
  \A p \in Procs :
    runner[p].run_exception = "KeyboardInterrupt" =>
      /\ runner[p].device_crash_batch = -1
      /\ ~runner[p].finalized
      /\ RunReturned(p) =>
           trace.log[p].cleanup =
             <<"horovod_signal_error", "writer.close", "stop_event_writer_thread",
               "coord.request_stop", "coord.join", "data_provider.stop_threads">>
      /\ pc[p] \in {"finally", "signal_error", "cleanup", "returned", "exited"}
      /\ pc[p] = "exited" => engine[p].exit_code = 1
      /\ (\A q \in Procs : runner[q].run_exception \in {"None", "KeyboardInterrupt"})
           => \A f \in DOMAIN files : ~IsCrashFile(f)

\* The engine has exited after a keyboard interrupt in the second step.
C15_Witness ==
  \E p \in Procs :
    /\ runner[p].run_exception = "KeyboardInterrupt"
    /\ pc[p] = "exited"
    /\ StepsDone(p) = 1
    /\ do_save(p)
    /\ DOMAIN files = {}

\* The last completed handshake round had an error vote.
ErrorRound ==
  /\ DOMAIN trace.round.error = Procs
  /\ \E q \in Procs : trace.round.error[q] = 1

\* C16: after a handshake round in which a peer reported an error, no peer
\* of the round returns from run() with a finalized run.
C16_ErrorRoundLeavesNoneFinalized ==
  ErrorRound => \A p \in Procs : RunReturned(p) => ~runner[p].finalized

\* The rule the learning rate of epoch e is chosen by, in the order of the
\* priorities: 1 controller (always), 2 pretrain, 3 initial, 4 controller.
RuleOf(e, cfg) ==
  IF cfg.use_learning_rate_control_always THEN 1
  ELSE IF cfg.pretrain >= e THEN 2
  ELSE IF cfg.pretrain > 0 /\ e = cfg.pretrain + 1 THEN 3
  ELSE 4

\* C17: init_train_epoch sets the learning rate of the epoch by the first
\* rule that applies: the controller's rate when
\* use_learning_rate_control_always is set, else the pretrain rate in a
\* pretrain epoch, else the initial rate in the first epoch after pretraining,
\* else the controller's rate; the two constant rates are written to the
\* controller as the rate of the epoch.
C17_LearningRateByPriority ==
  [][\A p \in Procs :
       (pc[p] = "init_train_epoch" /\ pc'[p] = "train_epoch") =>
         LET e == engine[p].epoch
             rule == RuleOf(e, config)
             old == engine[p].learning_rates[e]
             chosen == engine'[p].learning_rate
         IN /\ engine'[p].epoch = e
            /\ rule \in {1, 4} => chosen = old
            /\ rule = 2 => chosen = config.pretrain_learning_rate
            /\ rule = 3 => chosen = config.initial_learning_rate
            /\ rule \in {2, 3} => engine'[p].learning_rates[e] = chosen
            /\ \A o \in DOMAIN engine[p].learning_rates :
                 o # e => engine'[p].learning_rates[o] = engine[p].learning_rates[o]]_vars

\* A pretrain epoch with use_learning_rate_control_always set took the rate of
\* the controller, which is not the pretrain rate.
C17_Witness ==
  \E p \in Procs :
    /\ pc[p] = "train_epoch"
    /\ config.use_learning_rate_control_always
    /\ config.pretrain > 0
    /\ engine[p].epoch <= config.pretrain
    /\ engine[p].learning_rate = Float(1, 8)
    /\ engine[p].learning_rate # config.pretrain_learning_rate

----------------------------------------------------------------------------
(* Claims about Engine.train: the epochs, their runs and the cleanup. *)

Runs(p) == trace.runs[p]

IsRun(r) == r.name \in {"train", "dev", "eval"}

\* Some run named name of epoch e, logged before position i, was finalized.
FinalizedBefore(p, i, e, name) ==
  \E j \in 1 .. (i - 1) :
    Runs(p)[j].epoch = e /\ Runs(p)[j].name = name /\ Runs(p)[j].finalized

\* The training run of epoch e, logged before position i, had a finite score.
FiniteTrainBefore(p, i, e) ==
  \E j \in 1 .. (i - 1) :
    /\ Runs(p)[j].epoch = e /\ Runs(p)[j].name = "train"
    /\ ~AnyNonFinite(Runs(p)[j].score)

\* The call of cleanup_old_models at position i of the log follows finalized
\* runs on the train data and on every dataset of the evaluation, all of its
\* epoch, and no crash or broken checkpoint of that epoch was saved.
AfterFinalizedRuns(p, i) ==
  LET e == Runs(p)[i].epoch
  IN /\ FinalizedBefore(p, i, e, "train")
     /\ config.dev_data => FinalizedBefore(p, i, e, "dev")
     /\ config.eval_data => FinalizedBefore(p, i, e, "eval")
     /\ \A j \in 1 .. Len(Runs(p)) :
          (Runs(p)[j].epoch = e /\ IsRun(Runs(p)[j])) => Runs(p)[j].finalized
     /\ \A f \in DOMAIN files : f.epoch = e => f.tag = <<>>

\* C18 as stated: cleanup_old_models is called only in an epoch whose
\* training run finalized with a finite score and whose evaluation runs
\* finalized, never in an epoch of the crash path or the broken path.
C18_CleanupOnlyAfterFiniteEpoch ==
  \A p \in Procs : \A i \in 1 .. Len(Runs(p)) :
    Runs(p)[i].name = "cleanup_old_models" =>
      AfterFinalizedRuns(p, i) /\ FiniteTrainBefore(p, i, Runs(p)[i].epoch)

\* C18 amended: cleanup_old_models is called only in an epoch whose training
\* run finalized, whose score was finite or stop_on_nonfinite_train_score is
\* false, and whose evaluation runs finalized, never in an epoch of the crash
\* path or the broken path.
C18_CleanupOnlyAfterCompleteEpoch ==
  \A p \in Procs : \A i \in 1 .. Len(Runs(p)) :
    Runs(p)[i].name = "cleanup_old_models" =>
      /\ AfterFinalizedRuns(p, i)
      /\ FiniteTrainBefore(p, i, Runs(p)[i].epoch)
           \/ ~config.stop_on_nonfinite_train_score

\* The cleanup of epoch 2 deleted a checkpoint after a training run with a
\* NaN score and the runs on dev and eval.
C18_Witness ==
  \E p \in Procs :
    /\ pc[p] = "epoch_done"
    /\ engine[p].epoch = 2
    /\ config.dev_data /\ config.eval_data
    /\ trace.report[p].outcome = "deleted"
    /\ \E i \in 1 .. Len(Runs(p)) :
         /\ Runs(p)[i].epoch = 2 /\ Runs(p)[i].name = "train"
         /\ AnyNonFinite(Runs(p)[i].score)

\* A run that ends the process: not finalized, or a training run with a
\* non-finite score while stop_on_nonfinite_train_score is set.
EndsProcess(r) ==
  /\ IsRun(r)
  /\ \/ ~r.finalized
     \/ r.name = "train" /\ AnyNonFinite(r.score) /\ config.stop_on_nonfinite_train_score

\* C19: train() returns without sys.exit only after the loop has done every
\* epoch up to final_epoch with all runs finalized; a run that is not
\* finalized, or a training run with a non-finite score under the default
\* policy, is the last run of the process, which exits with status 1 in
\* the epoch of that run.
C19_ExitCodeOfTrain ==
  \A p \in Procs :
    /\ engine[p].exit_code \in {-1, 1}
    /\ engine[p].exit_code = 1 <=> pc[p] = "exited"
    /\ pc[p] = "train_done" =>
         /\ engine[p].epoch = config.final_epoch
         /\ \A e \in config.start_epoch .. config.final_epoch :
              /\ FinalizedBefore(p, Len(Runs(p)) + 1, e, "train")
              /\ config.dev_data => FinalizedBefore(p, Len(Runs(p)) + 1, e, "dev")
              /\ config.eval_data => FinalizedBefore(p, Len(Runs(p)) + 1, e, "eval")
         /\ \A i \in 1 .. Len(Runs(p)) : ~EndsProcess(Runs(p)[i])
    /\ \A i \in 1 .. Len(Runs(p)) :
         EndsProcess(Runs(p)[i]) =>
           /\ i = Len(Runs(p))
           /\ pc[p] = "exited"
           /\ engine[p].epoch = Runs(p)[i].epoch

\* The run on dev of epoch 1 of 2 was not finalized and the process exited.
C19_Witness ==
  \E p \in Procs :
    /\ pc[p] = "exited" /\ engine[p].exit_code = 1
    /\ engine[p].epoch = 1 /\ config.final_epoch = 2
    /\ Runs(p) # <<>>
    /\ Runs(p)[Len(Runs(p))].name = "dev"
    /\ ~Runs(p)[Len(Runs(p))].finalized

\* C20: a finalized run of the evaluation with a non-finite score, while
\* stop_on_nonfinite_train_score is set, ends the process with the .broken
\* checkpoint of the epoch saved.
C20_NonFiniteEvalScoreIsBroken ==
  \A p \in Procs : \A i \in 1 .. Len(Runs(p)) :
    LET r == Runs(p)[i]
    IN (r.name \in {"dev", "eval"} /\ r.finalized /\ AnyNonFinite(r.score)
          /\ config.stop_on_nonfinite_train_score) =>
         /\ pc[p] = "exited"
         /\ BrokenName(get_epoch_model_filename(r.epoch)) \in DOMAIN files

----------------------------------------------------------------------------
(* More claims about the collectives of a distributed run. *)

RECURSIVE StepsToSync(_, _)
\* The local steps s < k with (s + 1) mod n = 0, in their order.
StepsToSync(k, n) ==
  IF k = 0 THEN <<>>
  ELSE IF k % n = 0 THEN Append(StepsToSync(k - 1, n), k - 1)
  ELSE StepsToSync(k - 1, n)

AveragesParams == config.use_horovod /\ config.horovod_reduce_type = "param"

\* C21: the parameter allreduces a run has done are, in a training run with
\* reduce type 'param' and interval n, those after each completed local step s
\* with (s + 1) mod n = 0, and one more at finalization; a run that returned
\* finalized without an exception has done the final one; any other run does
\* none.
C21_SyncParamsWhenDue ==
  \A p \in Procs :
    LET n == config.horovod_param_sync_step
        in_loop == StepsToSync(runner[p].step, n)
        syncs == trace.log[p].syncs
    IN IF pc[p] \in {"train_epoch", "run"} THEN syncs = <<>>
       ELSE IF AveragesParams /\ runner[p].should_train THEN
         /\ n >= 1
         /\ \/ syncs = in_loop
            \/ runner[p].finalized /\ syncs = Append(in_loop, runner[p].step)
         /\ (RunReturned(p) /\ runner[p].finalized /\ runner[p].run_exception = "None")
              => syncs = Append(in_loop, runner[p].step)
       ELSE syncs = <<>>

\* A run of two steps with interval 2 that averaged after step 1 and at
\* finalization.
C21_Witness ==
  \E p \in Procs :
    /\ AveragesParams /\ config.horovod_param_sync_step = 2
    /\ RunReturned(p) /\ runner[p].finalized
    /\ runner[p].num_steps = 2
    /\ trace.log[p].syncs = <<1, 2>>

----------------------------------------------------------------------------
(* Claims about the fetches of a run. *)

\* Every step of the run used the dict that run() built before the loop.
StepsUseTheDictOfRun(p) ==
  \A i \in 1 .. Len(trace.used[p]) :
    /\ trace.used[p][i] = runner[p].fetches_dict
    /\ trace.used[p][i] # NoDict
    /\ trace.used[p][i] = trace.used[p][1]
    /\ \E j \in 1 .. Len(trace.built[p]) : trace.built[p][j] = trace.used[p][i]

\* C22 as stated: any two calls of the builder within a run return the
\* identical dict object, and every step uses the dict built before the loop.
C22_BuilderReturnsIdenticalDict ==
  \A p \in Procs :
    /\ \A i, j \in 1 .. Len(trace.built[p]) : trace.built[p][i].id = trace.built[p][j].id
    /\ StepsUseTheDictOfRun(p)

\* C22 amended: any two calls of the builder within a run return dicts with
\* the same keys bound to the identical graph nodes, the calls after the
\* first make no graph node, and every step uses the dict built before the
\* loop.
C22_BuilderReturnsIdenticalNodes ==
  \A p \in Procs :
    /\ \A i, j \in 1 .. Len(trace.built[p]) :
         /\ trace.built[p][i].items = trace.built[p][j].items
         /\ trace.nodes[p][i] = trace.nodes[p][j]
    /\ StepsUseTheDictOfRun(p)

\* Three calls of the builder with Horovod and a constant zero loss, and two
\* steps.
C22_Witness ==
  \E p \in Procs :
    /\ config.use_horovod /\ config.objective_is_zero
    /\ Len(trace.built[p]) = 3
    /\ Len(trace.used[p]) = 2
    /\ trace.built[p][3].id # trace.built[p][1].id
    /\ engine[p].graph.num_nodes > NewGraph.num_nodes

----------------------------------------------------------------------------
(* Claims about the normalization of the accumulated values. *)

\* The accumulated value of key k is not zero, k is not the key loss, and no
\* normalization factor is accumulated under the suffix of k.
LacksFactor(r, k) ==
  /\ r.results_accumulated[k] # Zero
  /\ k # <<"loss">>
  /\ Tail(k) \notin DOMAIN r.inv_norm_accumulated

\* C23: _finalize leaves a zero value and the value of the key loss as they
\* are, whatever factors are accumulated, divides any other value by the
\* factor accumulated under the suffix of its key, and when a non-zero value
\* of a cost or error key has no such factor it fails: the run is not
\* finalized and has no results.
C23_NormalizeOrFail ==
  \A p \in Procs :
    pc[p] = "finally" =>
      LET r == runner[p]
          acc == r.results_accumulated
      IN IF \E k \in DOMAIN acc : LacksFactor(r, k) THEN
           /\ ~r.finalized
           /\ r.run_exception = "AssertionError"
           /\ r.results = EmptyDict
         ELSE
           /\ r.finalized
           /\ r.run_exception = "None"
           /\ DOMAIN r.results = DOMAIN acc
           /\ \A k \in DOMAIN acc :
                r.results[k] =
                  IF acc[k] = Zero \/ k = <<"loss">> THEN acc[k]
                  ELSE FloatDiv(acc[k], r.inv_norm_accumulated[Tail(k)])

\* A run finalized with a zero cost kept while no factor is accumulated, the
\* loss kept as it is; another failed for the error without a factor.
C23_Witness ==
  \E p \in Procs :
    /\ pc[p] = "finally"
    /\ runner[p].finalized
    /\ runner[p].inv_norm_accumulated = EmptyDict
    /\ DOMAIN runner[p].results_accumulated = {<<"loss">>, <<"cost", "output">>}
    /\ runner[p].results[<<"cost", "output">>] = Zero
    /\ runner[p].results[<<"loss">>] = Float(3, 1)

\* A run whose non-zero error has no factor under its suffix failed at
\* _finalize.
C23_WitnessFailure ==
  \E p \in Procs :
    /\ pc[p] = "finally"
    /\ ~runner[p].finalized
    /\ runner[p].run_exception = "AssertionError"
    /\ DOMAIN runner[p].results_accumulated = {<<"error", "output">>}
    /\ runner[p].results_accumulated[<<"error", "output">>] = Float(3, 1)
    /\ DOMAIN runner[p].inv_norm_accumulated = {<<"other">>}

----------------------------------------------------------------------------
(* More claims about the handshake rounds. *)

\* The step is a completed handshake round: every process was in the
\* allreduce and left it with a result.
IsSignalRound ==
  /\ \A p \in Procs : hvd[p].op = "signal"
  /\ trace'.events = trace.events
  /\ \A p \in Procs : trace'.log[p].signal_rounds = trace.log[p].signal_rounds + 1

DataVotes == Cardinality({p \in Procs : hvd[p].have_more_data = 1})
ErrorVotes == Cardinality({p \in Procs : hvd[p].error = 1})

\* C24: a handshake round returns to every peer the same pair: stop exactly
\* when fewer peers than there are voted have_more_data or a peer voted
\* error, error exactly when a peer voted error; a peer that is told to stop
\* is stopped from then on.
C24_RoundResult ==
  [][IsSignalRound =>
       \A p \in Procs :
         /\ trace'.log[p].last_signal[1] = (DataVotes < Cardinality(Procs) \/ ErrorVotes > 0)
         /\ trace'.log[p].last_signal[2] = (ErrorVotes > 0)
         /\ trace'.log[p].last_signal[2] => trace'.log[p].last_signal[1]
         /\ \A q \in Procs : trace'.log[q].last_signal = trace'.log[p].last_signal
         /\ runner'[p].horovod_stopped_runner
              = (runner[p].horovod_stopped_runner \/ trace'.log[p].last_signal[1])]_vars

\* A round of two peers that ended without an error vote: one peer had data,
\* the other did not, and both were told to stop without error.
C24_Witness ==
  /\ config.hvd_size = 2
  /\ DOMAIN trace.round.have_more_data = Procs
  /\ \E p, q \in Procs :
       /\ trace.round.have_more_data[p] = 1 /\ trace.round.have_more_data[q] = 0
       /\ trace.round.error[p] = 0 /\ trace.round.error[q] = 0
  /\ \A p \in Procs : trace.log[p].last_signal = <<TRUE, FALSE>>
  /\ \A p \in Procs : trace.log[p].signal_calls = trace.log[p].signal_rounds

----------------------------------------------------------------------------
(* More claims about cleanup_old_models. *)

\* The epochs with a stored checkpoint.
StoredEpochs(fs) == {f.epoch : f \in {x \in DOMAIN fs : x.tag = <<>>}}

\* The n highest of the epochs E.
HighestEpochs(E, n) == {e \in E : Cardinality({x \in E : x > e}) < n}

\* C25: a call of cleanup_old_models that deletes a file leaves the
\* checkpoints of the keep_last_n highest stored epochs as they are, the
\* highest stored epoch among them.
C25_LastEpochsKept ==
  [][files' # files =>
       LET last == HighestEpochs(StoredEpochs(files), config.cleanup_old_models.keep_last_n)
       IN /\ Cardinality(last) = config.cleanup_old_models.keep_last_n
          /\ \A e \in last :
               /\ get_epoch_model_filename(e) \in DOMAIN files'
               /\ files'[get_epoch_model_filename(e)] = files[get_epoch_model_filename(e)]
          /\ \A e \in StoredEpochs(files) : \E x \in StoredEpochs(files') : x >= e]_vars

\* A cleanup with keep_last_n = 2 and keep_best_n = 0 deleted an epoch and
\* kept the two highest epochs, which the keep pattern does not hold.
C25_Witness ==
  \E p \in Procs :
    /\ trace.report[p].outcome = "deleted"
    /\ config.cleanup_old_models.keep_last_n = 2
    /\ config.cleanup_old_models.keep_best_n = 0
    /\ Len(trace.report[p].epochs) >= 3
    /\ LET last == HighestEpochs(Range(trace.report[p].epochs), 2)
       IN /\ last \cap trace.report[p].keep = {}
          /\ last \subseteq StoredEpochs(files)
          /\ StoredEpochs(files) # Range(trace.report[p].epochs)

\* What a step of init_train_epoch does to the parameters.
LoadsBestModel(p) ==
  /\ engine'[p].loaded_epoch = engine[p].last_best_epoch
  /\ engine'[p].optimizer_inits = engine[p].optimizer_inits + 1
  /\ \A l \in DOMAIN engine'[p].network.params :
       engine'[p].network.params[l].value = "loaded"

LeavesParams(p) ==
  /\ engine'[p].network = engine[p].network
  /\ engine'[p].loaded_epoch = engine[p].loaded_epoch
  /\ engine'[p].optimizer_inits = engine[p].optimizer_inits

StartsEpoch(p) == pc[p] = "init_train_epoch" /\ pc'[p] = "train_epoch"

\* The policy of use_last_best_model before the epoch of engine[p]; bad tells
\* whether the previous epoch's error value forces the check off the interval.
BestModelWanted(p, bad) ==
  /\ config.use_last_best_model.is_true
  /\ ~is_pretrain_epoch(engine[p].epoch, config)
  /\ (engine[p].epoch % config.use_last_best_model.modulo = 0 \/ bad)
  /\ engine[p].last_best_epoch # 0
  /\ engine[p].last_best_epoch # engine[p].epoch - 1

ErrorExceedsFilter(p) ==
  FloatLess(config.use_last_best_model.filter_score, OrZero(engine[p].last_epoch_error))

\* C26 as stated: the model of the best earlier epoch is loaded and the
\* optimizer reset only if use_last_best_model is enabled, the epoch is not a
\* pretrain epoch, the epoch is on the modulo interval or the previous
\* epoch's error value exceeds filter_score, and the best epoch differs from
\* epoch-1; in every other case the parameters are left unchanged.
C26_BestModelOnlyWhenExceeding ==
  [][\A p \in Procs : StartsEpoch(p) =>
       (~BestModelWanted(p, ErrorExceedsFilter(p)) => LeavesParams(p))]_vars

\* C26 amended: off the interval the check is forced when the previous
\* epoch's error value exceeds filter_score or is NaN; then, and on the
\* interval, the best earlier epoch is loaded and the optimizer reset when
\* it differs from epoch-1, and in every other case the parameters are left
\* unchanged.
C26_BestModelWhenNotAtMostFilter ==
  [][\A p \in Procs : StartsEpoch(p) =>
       IF BestModelWanted(p, ErrorExceedsFilter(p) \/ isnan(engine[p].last_epoch_error))
         THEN LoadsBestModel(p)
         ELSE LeavesParams(p)]_vars

\* An epoch off the interval started with the model of an earlier epoch.
C26_Witness ==
  \E p \in Procs :
    /\ pc[p] = "train_epoch"
    /\ engine[p].epoch % config.use_last_best_model.modulo # 0
    /\ engine[p].loaded_epoch # 0
    /\ engine[p].loaded_epoch = engine[p].last_best_epoch
    /\ engine[p].loaded_epoch < engine[p].epoch - 1
    /\ engine[p].optimizer_inits = 1

\* An old parameter fits the requested description when the description has
\* its layer in the same shape.
Fits(p, l) ==
  /\ l \in DOMAIN engine[p].network.params
  /\ engine[p].network.params[l].shape = config.pretrain_net_desc[l]

\* The network after a step is the one rebuilt for the requested description
\* with exactly the parameters of the layers in copied taken over.
RebuiltWith(p, copied) ==
  /\ engine'[p].network.builds = engine[p].network.builds + 1
  /\ engine'[p].network.layers_desc = config.pretrain_net_desc
  /\ DOMAIN engine'[p].network.params = DOMAIN config.pretrain_net_desc
  /\ \A l \in DOMAIN config.pretrain_net_desc :
       engine'[p].network.params[l] =
         IF l \in copied THEN engine[p].network.params[l]
         ELSE [shape |-> config.pretrain_net_desc[l], value |-> "random"]

NewNetworkStep(p, copied) ==
  IF is_pretrain_epoch(engine[p].epoch, config) THEN
    IF config.pretrain_net_desc = engine[p].network.layers_desc
      THEN engine'[p].network = engine[p].network
      ELSE RebuiltWith(p, copied)
  ELSE
    /\ engine'[p].network.builds = engine[p].network.builds
    /\ engine'[p].network.layers_desc = engine[p].network.layers_desc

\* Shape mismatches and missing parameters are tolerated in pretrain epochs only.
ToleratedInPretrainOnly(p) ==
  maybe_init_new_network_raises(engine[p], config.pretrain_net_desc, config)
    <=> /\ ~is_pretrain_epoch(engine[p].epoch, config)
        /\ config.pretrain_net_desc # engine[p].network.layers_desc
        /\ \E l \in DOMAIN config.pretrain_net_desc : ~Fits(p, l)

\* C27 as stated: at the start of a pretrain epoch a requested description
\* equal to the current one leaves the network untouched; a different one
\* rebuilds the network, every old parameter that still fits is copied over
\* and the new ones and those of another shape stay randomly initialized;
\* the network is never rebuilt at the start of a non-pretrain epoch.
C27_EveryFittingParamCopied ==
  [][\A p \in Procs : StartsEpoch(p) =>
       /\ NewNetworkStep(p, {l \in DOMAIN config.pretrain_net_desc : Fits(p, l)})
       /\ ToleratedInPretrainOnly(p)]_vars

\* C27 amended: as above, but the parameters of the output layers are
\* copied over only when copy_output_layer is not false.
C27_FittingParamsCopiedButOutput ==
  [][\A p \in Procs : StartsEpoch(p) =>
       /\ NewNetworkStep(p,
            {l \in DOMAIN config.pretrain_net_desc :
               Fits(p, l) /\ (config.copy_output_layer \/ l # "output")})
       /\ ToleratedInPretrainOnly(p)]_vars

\* A pretrain epoch started with a rebuilt network that has a copied and a
\* randomly initialized parameter.
C27_Witness ==
  \E p \in Procs :
    /\ pc[p] = "train_epoch"
    /\ is_pretrain_epoch(engine[p].epoch, config)
    /\ engine[p].network.builds = 2
    /\ \E l \in DOMAIN engine[p].network.params :
         engine[p].network.params[l].value = "trained"
    /\ \E l \in DOMAIN engine[p].network.params :
         engine[p].network.params[l].value = "random"

\* The session call of a step of process p is going on, or the parameter
\* averaging that follows it.
StepInFlight(p) == pc[p] \in {"sess_run", "sync_params"}

NoFault(r) == r.run_exception \in {"None", "CancelTrainingException"}

\* What a step of the model does in a process whose cancel flag is set while
\* a step is in flight: no other feed is taken, the control does not go back
\* to the head of the loop, and when the session call returns without a
\* fault the step's results are accumulated and its callback is invoked.
CancelledStepCompletes(p) ==
  (runner[p].cancel_flag /\ StepInFlight(p)) =>
    /\ trace'.log[p].batches = trace.log[p].batches
    /\ pc'[p] \in {"sess_run", "sync_params", "finally"}
    /\ (pc'[p] = "finally" /\ NoFault(runner'[p])) =>
         /\ runner'[p].run_exception = "CancelTrainingException"
         /\ Len(trace'.log[p].fetched) = Len(trace'.log[p].batches)
         /\ trace'.log[p].callbacks = Len(trace'.log[p].batches)
         /\ runner'[p].step = Len(trace'.log[p].batches)

\* After the loop was left no step is executed.
NoStepAfterLoop(p) ==
  ~InRun(p) \/ pc[p] \in {"after_loop", "signal_finish", "final_sync"} =>
    trace'.log[p].batches = trace.log[p].batches

ErrorFree == trace.events = 0

\* The length n_p of the local batch stream of peer p, and the least of them.
LocalLen(p) == Cardinality(BatchSlice(p))

MinLocalLen ==
  CHOOSE n \in {LocalLen(q) : q \in Procs} : \A q \in Procs : n <= LocalLen(q)

\* C29: in an error-free distributed run every peer has issued one handshake
\* round per loop iteration when it executes the iteration's step, executes
\* exactly min(n_i) steps and ends finalized, also when another peer's end
\* of data stopped it before the end of its own stream.
C29_LockstepToShortestStream ==
  (config.use_horovod /\ ErrorFree) =>
    \A p \in Procs :
      /\ pc[p] = "step" => trace.log[p].signal_rounds = Len(trace.log[p].batches) + 1
      /\ pc[p] = "sess_run" => trace.log[p].signal_rounds = Len(trace.log[p].batches)
      /\ RunReturned(p) =>
           /\ StepsDone(p) = MinLocalLen
           /\ Len(trace.log[p].batches) = MinLocalLen
           /\ trace.log[p].signal_rounds = MinLocalLen + 1
           /\ runner[p].finalized
           /\ runner[p].run_exception = "None"

\* Two peers ended finalized after one step each, one of them stopped by the
\* other's end of data with a batch of its own left.
C29_Witness ==
  /\ config.use_horovod /\ config.hvd_size = 2 /\ ErrorFree
  /\ \A p \in Procs : RunReturned(p) /\ runner[p].finalized /\ StepsDone(p) = 1
  /\ \E p \in Procs :
       /\ runner[p].hvd_stop
       /\ data_provider[p].pos < LocalLen(p)
       /\ ~have_reached_end(p)

\* The peers that executed the step of batch b of the epoch's batch stream.
ExecutedBy(b) ==
  {p \in Procs : \E i \in 1 .. StepsDone(p) : trace.log[p].batches[i] = b}

\* C30: when all peers of a distributed run have ended finalized, every
\* batch of the epoch's batch stream was executed by exactly one peer.
C30_EveryBatchExecutedOnce ==
  (config.use_horovod /\ \A p \in Procs : RunReturned(p) /\ runner[p].finalized) =>
    \A b \in 0 .. (config.num_batches - 1) : Cardinality(ExecutedBy(b)) = 1

\* The session call of a step of peer p raised while peer q is in the
\* session call of its step, whose fetches hold the cross-peer reductions.
FailsBeside(p, q) ==
  /\ config.use_horovod
  /\ p \in Procs /\ q \in Procs /\ p # q
  /\ trace.log[p].op_error
  /\ pc[q] = "sess_run"

\* Peer q has returned from run() and has seen stop and error.
ReturnedWithError(q) ==
  /\ q \in Procs
  /\ RunReturned(q)
  /\ runner[q].hvd_stop /\ runner[q].hvd_error

\* C31: when the step of one peer fails while the other peers execute the
\* same step, every other peer eventually returns from run() with stop and
\* error observed; none blocks forever in a collective the failed peer
\* never joins.
C31_PeerFailureReachesAll ==
  \A q \in 0 .. (MaxPeers - 1) :
    (\E p \in Procs : FailsBeside(p, q)) ~> ReturnedWithError(q)

\* The feeds of process p were taken in the order of its slice of the
\* batch stream: the i-th feed is the i-th batch of the slice.
InProviderOrder(p) ==
  \A i \in 1 .. Len(trace.log[p].batches) :
    /\ trace.log[p].batches[i] \in BatchSlice(p)
    /\ Cardinality({b \in BatchSlice(p) : b < trace.log[p].batches[i]}) = i - 1

\* One callback for every step whose results were accumulated, made before
\* the next feed is taken.
CallbackPerStep(p) ==
  /\ trace.log[p].callbacks = StepsDone(p)
  /\ Len(trace.log[p].batches) \in {trace.log[p].callbacks, trace.log[p].callbacks + 1}
  /\ pc[p] \in {"loop", "signal_have_more_data", "step"} =>
       trace.log[p].callbacks = Len(trace.log[p].batches)

CallbacksOfFinalized(p) ==
  runner[p].finalized => trace.log[p].callbacks = runner[p].num_steps

Overridden(p) ==
  IF engine[p].net_config.has THEN DOMAIN engine[p].net_config.entries ELSE {}

\* C33: after any sequence of network constructions every config entry that
\* the most recent description does not override has the value of the
\* config file, and every change of a batching-related entry clears the
\* cached batch orders.
C33_OverridesLastOneNetwork ==
  /\ [](\A p \in Procs : \A k \in ConfigKeys \ Overridden(p) :
          engine[p].typed_dict[k] = config.typed_dict[k])
  /\ [][\A p \in Procs :
         (\E k \in ConfigKeys \cap BatchingKeys :
            engine'[p].typed_dict[k] # engine[p].typed_dict[k])
           => engine'[p].dataset_batches = {}]_vars

\* A network without overrides was built after one that overrode the batch
\* size: the config is that of the file again and no batch order is cached.
C33_Witness ==
  \E p \in Procs :
    /\ engine[p].network.builds >= 3
    /\ ~engine[p].net_config.has
    /\ "batch_size" \in engine[p].prev_overridden
    /\ config.typed_dict["batch_size"] = 0
    /\ engine[p].typed_dict = config.typed_dict
    /\ engine[p].dataset_batches = {}

\* C34: in a distributed run only the peer of rank 0 changes persistent
\* state: every step that writes or deletes a checkpoint file is a step of
\* rank 0 alone, and on every other peer cleanup_old_models returns at once
\* and the learning-rate history is never written.
C34_OnlyRankZeroWrites ==
  /\ [][(config.use_horovod /\ files' # files) =>
          /\ pc'[0] # pc[0]
          /\ \A q \in Procs \ {0} : pc'[q] = pc[q]]_vars
  /\ [](config.use_horovod =>
          \A q \in Procs \ {0} :
            /\ trace.report[q].outcome \in {"none", "no_save"}
            /\ \A i \in 1 .. Len(trace.runs[q]) :
                 trace.runs[q][i].name # "learning_rate_control.save")

\* A peer of rank 1 went through the whole of train() and wrote nothing,
\* while rank 0 saved the model and the learning-rate history.
C34_Witness ==
  /\ config.use_horovod /\ 1 \in Procs
  /\ pc[1] = "train_done"
  /\ trace.report[1].outcome = "no_save"
  /\ \E i \in 1 .. Len(trace.runs[1]) :
       trace.runs[1][i].name = "train" /\ trace.runs[1][i].finalized
  /\ \E i \in 1 .. Len(trace.runs[0]) :
       trace.runs[0][i].name = "learning_rate_control.save"
  /\ get_epoch_model_filename(1) \in DOMAIN files

\* The epochs of the training runs of process p, in the order of the runs.
TrainedEpochs(p) ==
  LET trained == SelectSeq(Runs(p), LAMBDA r : r.name = "train")
  IN [i \in 1 .. Len(trained) |-> trained[i].epoch]

\* The epochs trained are start_epoch, start_epoch + 1, ... without a gap.
InIncreasingOrder(p) ==
  \A i \in 1 .. Len(TrainedEpochs(p)) :
    TrainedEpochs(p)[i] = config.start_epoch + i - 1

\* train() returned: every epoch of start_epoch .. final_epoch was trained,
\* and the checkpoint of the final epoch is there if a filename is set.
CompletedNormally(p) ==
  /\ Len(TrainedEpochs(p)) =
       IF config.start_epoch <= config.final_epoch
         THEN config.final_epoch - config.start_epoch + 1 ELSE 0
  /\ (config.start_epoch <= config.final_epoch /\ config.model_filename)
       => get_epoch_model_filename(config.final_epoch) \in DOMAIN files

NothingTrained(p) == Runs(p) = <<>> /\ files = <<>>

\* C35 as stated: train() runs the epochs start_epoch .. final_epoch each once
\* in increasing order and then has saved the checkpoint of the final epoch
\* whatever the save interval is; with start_epoch > final_epoch no epoch is
\* trained and nothing is saved.
C35_EpochsOnceInOrderThenLastSaved ==
  \A p \in Procs :
    /\ InIncreasingOrder(p)
    /\ \A i \in 1 .. Len(TrainedEpochs(p)) : TrainedEpochs(p)[i] <= config.final_epoch
    /\ pc[p] = "train_done" => CompletedNormally(p)
    /\ config.start_epoch > config.final_epoch => NothingTrained(p)

\* C35, amended: the same for a final epoch other than 0; with final_epoch 0
\* the loop has no last epoch: it trains start_epoch, start_epoch + 1, ... in
\* increasing order and does not complete.
C35_EpochsOnceInOrderUnlessNoFinalEpoch ==
  \A p \in Procs :
    /\ InIncreasingOrder(p)
    /\ pc[p] = "train_done" => CompletedNormally(p)
    /\ IF config.final_epoch # 0 THEN
         /\ \A i \in 1 .. Len(TrainedEpochs(p)) :
              TrainedEpochs(p)[i] <= config.final_epoch
         /\ config.start_epoch > config.final_epoch => NothingTrained(p)
       ELSE pc[p] # "train_done"

\* train() returned after the epochs 2 and 3 with the save interval 2: the
\* checkpoint of epoch 3 is the one saved after the loop.
C35_Witness ==
  /\ pc[0] = "train_done"
  /\ config.start_epoch = 2 /\ config.final_epoch = 3
  /\ config.save_interval = 2 /\ config.model_filename
  /\ TrainedEpochs(0) = <<2, 3>>
  /\ DOMAIN files = {get_epoch_model_filename(2), get_epoch_model_filename(3)}

\* With no final epoch, epochs are trained although start_epoch > final_epoch.
C35_NoFinalEpochWitness ==
  /\ config.final_epoch = 0 /\ config.start_epoch = 2 /\ config.model_filename
  /\ config.save_interval = 1
  /\ TrainedEpochs(0) = <<2, 3>>
  /\ get_epoch_model_filename(3) \in DOMAIN files

\* C36: cleanup_old_models completes without raising for every combination
\* of stored epochs and error history with at least one score key: neither a
\* stored epoch without a history entry nor a score key recorded only for
\* epochs without a stored checkpoint makes it raise.
C36_CleanupNeverRaisesOnHistory ==
  \A p \in Procs :
    score_keys(epochData[p]) # {} =>
      trace.report[p].outcome \notin {"KeyError", "ValueError"}

\* C37: a call of delete_model for the checkpoint of one epoch leaves the
\* checkpoint of every other epoch on disk, also that of an epoch whose
\* checkpoint name begins with the name deleted.
C37_DeleteLeavesOtherEpochs ==
  [][\A p \in Procs :
       (pc'[p] # pc[p] /\ trace'.deleted[p].called /\ trace'.deleted[p].filename.tag = <<>>) =>
         \A f \in DOMAIN files :
           (f.tag = <<>> /\ f.epoch # trace'.deleted[p].filename.epoch)
             => f \in DOMAIN files']_vars

====
